---------------------------- MODULE Spec2Model ----------------------------
(***************************************************************************)
(* A model of clearml/utilities/proxy_object.py: the deferred-value proxy  *)
(* (WrapperBase, LazyEvalWrapper, lazy_eval_wrapper_spec_class), the two   *)
(* mapping wrappers (ProxyDictPostWrite, ProxyDictPreWrite) and the        *)
(* casting and flattening helpers (convert_bool, cast_basic_type,          *)
(* get_basic_type, flatten_dictionary, nested_from_flat_dictionary).       *)
(*                                                                         *)
(* The specifications of the module:                                       *)
(*   SpecProxy     the lazy handles: resolution and forwarding             *)
(*   SpecOps       binary operators, str and == through a handle           *)
(*   SpecAttr      attribute get, set and delete through a handle          *)
(*   SpecRace      threads resolving the same handle                       *)
(*   SpecRemote    the remote-reference registry of LazyEvalWrapper        *)
(*   SpecPost      ProxyDictPostWrite: item assignment and update          *)
(*   SpecPostAll   ProxyDictPostWrite: every dict operation, to_dict       *)
(*   SpecPre       ProxyDictPreWrite                                       *)
(*   SpecPrePaths  ProxyDictPreWrite: deeply nested writes                 *)
(*   SpecCast      cast_basic_type / convert_bool on scalars               *)
(*   SpecRound     get_basic_type / cast_basic_type round trip             *)
(*   SpecFlat      flatten_dictionary / nested_from_flat_dictionary        *)
(*   SpecFlatPaths flatten_dictionary with a prefix and empty dicts        *)
(*   SpecFlush     the flush while a callback calls an accessor            *)
(***************************************************************************)
EXTENDS Integers, Sequences, FiniteSets, TLC

(***************************************************************************)
(* Bounds of the model.                                                    *)
(***************************************************************************)
MaxHandles == 2
MaxCalls == 2
MaxThreads == 2

VARIABLES
    handles,    \* handle -> the instance's slots (_wrapped, _callback, _remote_reference)
    calls,      \* handle -> number of times its producer (_callback) was invoked
    registry,   \* LazyEvalWrapper._remote_reference_calls
    pending,    \* history: handle -> registered since the last flush, accessor not yet invoked
    last,       \* the last operation performed and what it observed
    threads,    \* thread -> where it stands in _load_object and the obj it holds
    pstore,     \* ProxyDictPostWrite: path -> entry of the mapping tree
    plast,      \* ProxyDictPostWrite: the last operation and its notifications
    fstore,     \* ProxyDictPreWrite: path -> entry of the mapping tree
    flast,      \* ProxyDictPreWrite: the last operation and the callbacks consulted
    cin,        \* cast_basic_type: the arguments
    cout        \* cast_basic_type: the outcome

proxyVars == <<handles, calls, registry, pending, last, threads>>
postVars == <<pstore, plast>>
preVars == <<fstore, flast>>
castVars == <<cin, cout>>
vars == <<handles, calls, registry, pending, last, threads, pstore, plast, fstore, flast, cin, cout>>

(***************************************************************************)
(* Python values.  A value is [ty, n]: its type's name and a payload.      *)
(* int n is the integer n; str n is the string "a"*n; list n is [0]*n;     *)
(* dict n is a mapping with n entries; bool n is False/True for 0/1.       *)
(* An exception raised by an operation is a value whose ty is its name.    *)
(***************************************************************************)
PyNone == [ty |-> "NoneType", n |-> 0]
PyInt(k) == [ty |-> "int", n |-> k]
PyStr(k) == [ty |-> "str", n |-> k]
PyList(k) == [ty |-> "list", n |-> k]
PyDict(k) == [ty |-> "dict", n |-> k]
PyBool(b) == [ty |-> "bool", n |-> IF b THEN 1 ELSE 0]
PyType(t) == [ty |-> "type:" \o t, n |-> 0]
NotImplemented == [ty |-> "NotImplementedType", n |-> 0]
Raise(e) == [ty |-> e, n |-> 0]
NoValue == [ty |-> "-", n |-> 0]
\* an instance of a class with the single slot x: x holds the int k, or is
\* not set when k = 0
PyRecord(k) == [ty |-> "Record", n |-> k]

\* the str that str(v) returns
StrOf(v) == [ty |-> "str of " \o v.ty, n |-> v.n]

Exceptions == {"ProducerError", "TypeError", "AttributeError", "ZeroDivisionError"}
IsRaise(v) == v.ty \in Exceptions

\* hasattr(<type>, name) for the built-in types of the model
HasAttr(t, name) ==
    CASE name = "__lt__" -> TRUE
      [] name = "__eq__" -> TRUE
      [] name = "__add__" -> t \in {"int", "bool", "str", "list"}
      [] name \in {"__radd__", "__sub__", "__rsub__", "__floordiv__", "__rfloordiv__"} ->
            t \in {"int", "bool"}
      [] name = "__str__" -> TRUE
      [] name = "__int__" -> t \in {"int", "bool"}
      [] name = "__index__" -> t \in {"int", "bool"}
      [] name = "__len__" -> t \in {"str", "list", "dict"}
      [] name = "__class__" -> TRUE
      [] OTHER -> FALSE

\* bool(v) of a built-in value
Truthy(v) ==
    CASE v.ty = "NoneType" -> FALSE
      [] OTHER -> v.n # 0

\* getattr(obj, name)(*args) on built-in values; args is <<>> or <<v>>
Apply(name, obj, args) ==
    IF ~HasAttr(obj.ty, name) THEN Raise("AttributeError")
    ELSE CASE name = "__int__" ->
                IF args = <<>> THEN PyInt(obj.n) ELSE Raise("TypeError")
           [] name = "__len__" ->
                IF args = <<>> THEN PyInt(obj.n) ELSE Raise("TypeError")
           [] name = "__lt__" ->
                IF args = <<>> THEN Raise("TypeError")
                ELSE IF obj.ty = args[1].ty /\ obj.ty \in {"int", "str", "list"}
                     THEN PyBool(obj.n < args[1].n)
                     ELSE NotImplemented
           [] name = "__eq__" ->
                IF args = <<>> THEN Raise("TypeError")
                ELSE IF obj.ty = args[1].ty THEN PyBool(obj.n = args[1].n)
                     ELSE NotImplemented
           [] name = "__add__" ->
                IF args = <<>> THEN Raise("TypeError")
                ELSE IF obj.ty = args[1].ty THEN [ty |-> obj.ty, n |-> obj.n + args[1].n]
                     ELSE IF obj.ty = "int" THEN NotImplemented
                     ELSE Raise("TypeError")
           [] name \in {"__radd__", "__sub__", "__rsub__", "__floordiv__", "__rfloordiv__"} ->
                IF args = <<>> THEN Raise("TypeError")
                ELSE IF args[1].ty # "int" THEN NotImplemented
                ELSE (CASE name = "__radd__" -> PyInt(args[1].n + obj.n)
                       [] name = "__sub__" -> PyInt(obj.n - args[1].n)
                       [] name = "__rsub__" -> PyInt(args[1].n - obj.n)
                       [] name = "__floordiv__" ->
                            IF args[1].n = 0 THEN Raise("ZeroDivisionError")
                            ELSE PyInt(obj.n \div args[1].n)
                       [] name = "__rfloordiv__" ->
                            IF obj.n = 0 THEN Raise("ZeroDivisionError")
                            ELSE PyInt(args[1].n \div obj.n))
           [] name = "__str__" ->
                IF args = <<>> THEN StrOf(obj) ELSE Raise("TypeError")
           [] OTHER -> Raise("AttributeError")

(***************************************************************************)
(* Handles.                                                                *)
(***************************************************************************)
H == 1 .. MaxHandles

\* the names of WrapperBase._special_names the model forwards, as spelled there
SpecialNames ==
    {"__lt__", "__add__", "__int__", "__eq__", "__radd__", "__sub__", "__rsub__",
     "__floordiv__", "__rfloorfiv__", "__str__"}

\* values a producer of an untyped handle returns
LazyRets == {PyNone, PyInt(3), PyInt(4)}

\* declared types of the typed proxy factory, and what the producer returns
DeclTypes == {"int", "str", "list", "dict"}

TypedRet(t) ==
    CASE t = "int" -> PyInt(3)
      [] t = "str" -> PyStr(2)
      [] t = "list" -> PyList(1)
      [] t = "dict" -> PyDict(1)
      [] t = "Record" -> PyRecord(1)

\* remote references: None, two callables, a non-callable
RefVals == {"None", "f1", "f2", "nc"}
Callable(f) == f \in {"f1", "f2", "f3"}
RefTruthy(f) == f # "None"

FreeHandle ==
    [kind |-> "free", base |-> "", ret |-> PyNone, flaky |-> FALSE,
     wrapped |-> PyNone, rref |-> "None"]

NoLast ==
    [op |-> "init", h |-> 0, name |-> "", obj |-> NoValue, argv |-> NoValue,
     out |-> NoValue, invoked |-> <<>>]

\* LazyEvalWrapper.__init__
LazyInit(h, ret, flaky, rref) ==
    /\ handles[h].kind = "free"
    /\ \A g \in H : g < h => handles[g].kind # "free"
    /\ handles' = [handles EXCEPT ![h] =
                      [kind |-> "lazy", base |-> "", ret |-> ret, flaky |-> flaky,
                       wrapped |-> PyNone, rref |-> rref]]
    /\ registry' = IF RefTruthy(rref) THEN Append(registry, rref) ELSE registry
    /\ pending' = [pending EXCEPT ![h] = RefTruthy(rref)]
    /\ last' = [NoLast EXCEPT !.op = "new", !.h = h]
    /\ UNCHANGED <<calls, threads, postVars, preVars, castVars>>

\* TypedLazyEvalWrapper.__init__
TypedInit(h, base, flaky) ==
    /\ handles[h].kind = "free"
    /\ \A g \in H : g < h => handles[g].kind # "free"
    /\ handles' = [handles EXCEPT ![h] =
                      [kind |-> "typed", base |-> base, ret |-> TypedRet(base),
                       flaky |-> flaky, wrapped |-> PyNone, rref |-> "None"]]
    /\ last' = [NoLast EXCEPT !.op = "new", !.h = h]
    /\ UNCHANGED <<calls, registry, pending, threads, postVars, preVars, castVars>>

\* WrapperBase.__new__: is special method `name` defined on the handle's class
Installed(hd, name) ==
    /\ name \in SpecialNames \cup {"__index__"}
    /\ (hd.kind = "typed" => HasAttr(hd.base, name))

\* a _load_object that caches the producer's failure as the resolved value
LoadObjectCachesFailure(hs, cs, h, boom) ==
    IF hs[h].wrapped # PyNone
    THEN [hs |-> hs, cs |-> cs, obj |-> hs[h].wrapped]
    ELSE IF boom
         THEN [hs |-> [hs EXCEPT ![h].wrapped = Raise("ProducerError")],
               cs |-> [cs EXCEPT ![h] = @ + 1], obj |-> Raise("ProducerError")]
         ELSE [hs |-> [hs EXCEPT ![h].wrapped = hs[h].ret],
               cs |-> [cs EXCEPT ![h] = @ + 1], obj |-> hs[h].ret]

\* LazyEvalWrapper._load_object; boom: the producer raises on this call
LoadObject(hs, cs, h, boom) ==
    IF hs[h].wrapped # PyNone
    THEN [hs |-> hs, cs |-> cs, obj |-> hs[h].wrapped]
    ELSE IF boom
         THEN [hs |-> hs, cs |-> [cs EXCEPT ![h] = @ + 1], obj |-> Raise("ProducerError")]
         ELSE [hs |-> [hs EXCEPT ![h].wrapped = hs[h].ret],
               cs |-> [cs EXCEPT ![h] = @ + 1], obj |-> hs[h].ret]

\* the first lines of WrapperBase.make_method.method: the same test, inline
MethodResolve(hs, cs, h, boom) ==
    IF hs[h].wrapped # PyNone
    THEN [hs |-> hs, cs |-> cs, obj |-> hs[h].wrapped]
    ELSE IF boom
         THEN [hs |-> hs, cs |-> [cs EXCEPT ![h] = @ + 1], obj |-> Raise("ProducerError")]
         ELSE [hs |-> [hs EXCEPT ![h].wrapped = hs[h].ret],
               cs |-> [cs EXCEPT ![h] = @ + 1], obj |-> hs[h].ret]

\* try: int(args[0]) except: pass -- int() reaches the wrapper's __int__ (or
\* __index__) when the class defines one, and raises TypeError otherwise;
\* every exception is swallowed
ForceArg(hs, cs, g, boom) ==
    IF Installed(hs[g], "__int__") \/ Installed(hs[g], "__index__")
    THEN LET r == MethodResolve(hs, cs, g, boom) IN [hs |-> r.hs, cs |-> r.cs]
    ELSE [hs |-> hs, cs |-> cs]

\* can the producer be called here, and may it raise
WillCall(hs, h) == hs[h].wrapped = PyNone
BoomOk(hs, h, boom) == boom => (WillCall(hs, h) /\ hs[h].flaky)

\* an argument of a forwarded call: none, a plain value, or a handle
NoArg == [k |-> "none", h |-> 0, v |-> NoValue]
ValArg(v) == [k |-> "val", h |-> 0, v |-> v]
HandleArg(g) == [k |-> "handle", h |-> g, v |-> NoValue]

\* WrapperBase.make_method.method, called through the operator `name`;
\* b1, b2: the producer of the handle / of the argument raises on this call
Method(h, name, arg, b1, b2) ==
    /\ handles[h].kind # "free"
    /\ Installed(handles[h], name)
    /\ arg.k = "handle" => handles[arg.h].kind # "free"
    /\ BoomOk(handles, h, b1)
    /\ LET r1 == MethodResolve(handles, calls, h, b1) IN
       IF IsRaise(r1.obj)
       THEN /\ ~b2
            /\ handles' = r1.hs
            /\ calls' = r1.cs
            /\ last' = [op |-> "method", h |-> h, name |-> name, obj |-> r1.obj,
                        argv |-> NoValue, out |-> r1.obj, invoked |-> <<>>]
       ELSE LET isH == arg.k = "handle"
                forced == isH /\ (Installed(r1.hs[arg.h], "__int__")
                                    \/ Installed(r1.hs[arg.h], "__index__"))
                r2 == IF isH THEN ForceArg(r1.hs, r1.cs, arg.h, b2)
                      ELSE [hs |-> r1.hs, cs |-> r1.cs]
                args == CASE arg.k = "none" -> <<>>
                          [] arg.k = "val" -> <<arg.v>>
                          [] arg.k = "handle" -> <<r2.hs[arg.h].wrapped>>
            IN  /\ b2 => (forced /\ BoomOk(r1.hs, arg.h, b2))
                /\ handles' = r2.hs
                /\ calls' = r2.cs
                /\ last' = [op |-> "method", h |-> h, name |-> name, obj |-> r1.obj,
                            argv |-> IF args = <<>> THEN NoValue ELSE args[1],
                            out |-> Apply(name, r1.obj, args), invoked |-> <<>>]
    /\ \A g \in H : calls'[g] <= MaxCalls
    /\ UNCHANGED <<registry, pending, threads, postVars, preVars, castVars>>

\* LazyEvalWrapper.__bool__ / TypedLazyEvalWrapper.__bool__
Bool(h, boom) ==
    /\ handles[h].kind # "free"
    /\ BoomOk(handles, h, boom)
    /\ LET r == LoadObject(handles, calls, h, boom) IN
       /\ handles' = r.hs
       /\ calls' = r.cs
       /\ last' = [op |-> "bool", h |-> h, name |-> "__bool__", obj |-> r.obj,
                   argv |-> NoValue,
                   out |-> IF IsRaise(r.obj) THEN r.obj ELSE PyBool(Truthy(r.obj)),
                   invoked |-> <<>>]
    /\ \A g \in H : calls'[g] <= MaxCalls
    /\ UNCHANGED <<registry, pending, threads, postVars, preVars, castVars>>

\* attribute names read through the handle
Attrs == {"__class__", "__isabstractmethod__", "_remote_reference"}

\* getattr(obj, attr) on a built-in value
GetBuiltinAttr(obj, attr) ==
    IF attr = "__class__" THEN PyType(obj.ty)
    ELSE IF attr = "x" /\ obj.ty = "Record" /\ obj.n # 0 THEN PyInt(obj.n)
    ELSE Raise("AttributeError")

\* setattr(obj, attr, v): [obj, out], the object afterwards and the outcome
SetBuiltinAttr(obj, attr, v) ==
    IF attr = "x" /\ obj.ty = "Record"
    THEN [obj |-> PyRecord(v.n), out |-> PyNone]
    ELSE [obj |-> obj, out |-> Raise("AttributeError")]

\* delattr(obj, attr): [obj, out]
DelBuiltinAttr(obj, attr) ==
    IF attr = "x" /\ obj.ty = "Record" /\ obj.n # 0
    THEN [obj |-> PyRecord(0), out |-> PyNone]
    ELSE [obj |-> obj, out |-> Raise("AttributeError")]

\* LazyEvalWrapper.__getattribute__: [fwd, hs, cs, obj, out]
LazyGetAttribute(hs, cs, h, attr, boom) ==
    IF attr \in {"__isabstractmethod__"}
    THEN [fwd |-> FALSE, hs |-> hs, cs |-> cs, obj |-> NoValue, out |-> PyNone]
    ELSE IF attr \in {"_remoteref", "_remote_reference"}
         THEN [fwd |-> FALSE, hs |-> hs, cs |-> cs, obj |-> NoValue,
               out |-> [ty |-> "ref:" \o hs[h].rref, n |-> 0]]
         ELSE LET r == LoadObject(hs, cs, h, boom) IN
              [fwd |-> TRUE, hs |-> r.hs, cs |-> r.cs, obj |-> r.obj,
               out |-> IF IsRaise(r.obj) THEN r.obj ELSE GetBuiltinAttr(r.obj, attr)]

\* a __getattribute__ without the "__class__" branch: the query is forwarded
\* to the resolved value like any other attribute
GetAttributeForwardsClass(hs, cs, h, attr, boom) ==
    IF attr = "__isabstractmethod__"
    THEN [fwd |-> FALSE, hs |-> hs, cs |-> cs, obj |-> NoValue, out |-> PyNone]
    ELSE LET r == LoadObject(hs, cs, h, boom) IN
         [fwd |-> TRUE, hs |-> r.hs, cs |-> r.cs, obj |-> r.obj,
          out |-> IF IsRaise(r.obj) THEN r.obj ELSE GetBuiltinAttr(r.obj, attr)]

\* TypedLazyEvalWrapper.__getattribute__: [fwd, hs, cs, obj, out]
TypedGetAttribute(hs, cs, h, attr, boom) ==
    IF attr = "__isabstractmethod__"
    THEN [fwd |-> FALSE, hs |-> hs, cs |-> cs, obj |-> NoValue, out |-> PyNone]
    ELSE IF attr = "__class__"
         THEN [fwd |-> FALSE, hs |-> hs, cs |-> cs, obj |-> NoValue,
               out |-> PyType(hs[h].base)]
         ELSE LET r == LoadObject(hs, cs, h, boom) IN
              [fwd |-> TRUE, hs |-> r.hs, cs |-> r.cs, obj |-> r.obj,
               out |-> IF IsRaise(r.obj) THEN r.obj ELSE GetBuiltinAttr(r.obj, attr)]

\* handle.attr
GetAttr(h, attr, boom) ==
    /\ handles[h].kind # "free"
    /\ LET r == IF handles[h].kind = "lazy"
                THEN LazyGetAttribute(handles, calls, h, attr, boom)
                ELSE TypedGetAttribute(handles, calls, h, attr, boom)
       IN  /\ boom => (r.fwd /\ BoomOk(handles, h, boom))
           /\ handles' = r.hs
           /\ calls' = r.cs
           /\ last' = [op |-> IF r.fwd THEN "getattr" ELSE "own", h |-> h, name |-> attr,
                       obj |-> r.obj, argv |-> NoValue, out |-> r.out, invoked |-> <<>>]
    /\ \A g \in H : calls'[g] <= MaxCalls
    /\ UNCHANGED <<registry, pending, threads, postVars, preVars, castVars>>

\* LazyEvalWrapper.__setattr__: [fwd, hs, cs, obj, out]
LazySetAttr(hs, cs, h, attr, v, boom) ==
    LET r == LoadObject(hs, cs, h, boom) IN
    IF IsRaise(r.obj)
    THEN [fwd |-> TRUE, hs |-> r.hs, cs |-> r.cs, obj |-> r.obj, out |-> r.obj]
    ELSE LET s == SetBuiltinAttr(r.obj, attr, v) IN
         [fwd |-> TRUE, hs |-> [r.hs EXCEPT ![h].wrapped = s.obj], cs |-> r.cs,
          obj |-> r.obj, out |-> s.out]

\* LazyEvalWrapper.__delattr__: [fwd, hs, cs, obj, out]
LazyDelAttr(hs, cs, h, attr, boom) ==
    LET r == LoadObject(hs, cs, h, boom) IN
    IF IsRaise(r.obj)
    THEN [fwd |-> TRUE, hs |-> r.hs, cs |-> r.cs, obj |-> r.obj, out |-> r.obj]
    ELSE LET s == DelBuiltinAttr(r.obj, attr) IN
         [fwd |-> TRUE, hs |-> [r.hs EXCEPT ![h].wrapped = s.obj], cs |-> r.cs,
          obj |-> r.obj, out |-> s.out]

\* TypedLazyEvalWrapper defines no __setattr__: object.__setattr__ acts on
\* the instance, whose only data slots are _wrapped and _callback
TypedSetAttr(hs, cs, h, attr, v) ==
    IF attr = "_wrapped"
    THEN [fwd |-> FALSE, hs |-> [hs EXCEPT ![h].wrapped = v], cs |-> cs,
          obj |-> NoValue, out |-> PyNone]
    ELSE [fwd |-> FALSE, hs |-> hs, cs |-> cs, obj |-> NoValue,
          out |-> Raise("AttributeError")]

\* TypedLazyEvalWrapper defines no __delattr__: object.__delattr__ looks for
\* the name on the instance
TypedDelAttr(hs, cs, h, attr) ==
    [fwd |-> FALSE, hs |-> hs, cs |-> cs, obj |-> NoValue, out |-> Raise("AttributeError")]

\* handle.attr = v
SetAttr(h, attr, v, boom) ==
    /\ handles[h].kind # "free"
    /\ LET r == IF handles[h].kind = "lazy"
                THEN LazySetAttr(handles, calls, h, attr, v, boom)
                ELSE TypedSetAttr(handles, calls, h, attr, v)
       IN  /\ boom => (r.fwd /\ BoomOk(handles, h, boom))
           /\ handles' = r.hs
           /\ calls' = r.cs
           /\ last' = [op |-> IF r.fwd THEN "setattr" ELSE "own-setattr", h |-> h,
                       name |-> attr, obj |-> r.obj, argv |-> v, out |-> r.out,
                       invoked |-> <<>>]
    /\ \A g \in H : calls'[g] <= MaxCalls
    /\ UNCHANGED <<registry, pending, threads, postVars, preVars, castVars>>

\* del handle.attr
DelAttr(h, attr, boom) ==
    /\ handles[h].kind # "free"
    /\ LET r == IF handles[h].kind = "lazy"
                THEN LazyDelAttr(handles, calls, h, attr, boom)
                ELSE TypedDelAttr(handles, calls, h, attr)
       IN  /\ boom => (r.fwd /\ BoomOk(handles, h, boom))
           /\ handles' = r.hs
           /\ calls' = r.cs
           /\ last' = [op |-> IF r.fwd THEN "delattr" ELSE "own-delattr", h |-> h,
                       name |-> attr, obj |-> r.obj, argv |-> NoValue, out |-> r.out,
                       invoked |-> <<>>]
    /\ \A g \in H : calls'[g] <= MaxCalls
    /\ UNCHANGED <<registry, pending, threads, postVars, preVars, castVars>>

InSeq(x, s) == \E i \in 1 .. Len(s) : s[i] = x
FirstIndex(x, s) == CHOOSE i \in 1 .. Len(s) : s[i] = x /\ \A j \in 1 .. (i - 1) : s[j] # x
\* list.remove(x): drops the first element equal to x
ListRemove(s, x) ==
    LET i == FirstIndex(x, s) IN SubSeq(s, 1, i - 1) \o SubSeq(s, i + 1, Len(s))
Count(x, s) == Cardinality({i \in 1 .. Len(s) : s[i] = x})

\* a _remoteref that reaches its slot through the forwarding attribute
\* access, resolving the handle on the way
RemoteRefResolves(h) ==
    /\ handles[h].kind = "lazy"
    /\ LET func == handles[h].rref
           r == LoadObject(handles, calls, h, FALSE)
       IN
       /\ registry' = IF RefTruthy(func) /\ InSeq(func, registry)
                      THEN ListRemove(registry, func)
                      ELSE registry
       /\ handles' = r.hs
       /\ calls' = r.cs
       /\ \A g \in H : calls'[g] <= MaxCalls
       /\ last' = [op |-> "remoteref", h |-> h, name |-> "_remoteref", obj |-> NoValue,
                   argv |-> NoValue, out |-> NoValue,
                   invoked |-> IF Callable(func) THEN <<func>> ELSE <<>>]
    /\ pending' = [pending EXCEPT ![h] = FALSE]
    /\ UNCHANGED <<threads, postVars, preVars, castVars>>

\* LazyEvalWrapper._remoteref
RemoteRef(h) ==
    /\ handles[h].kind = "lazy"
    /\ LET func == handles[h].rref IN
       /\ registry' = IF RefTruthy(func) /\ InSeq(func, registry)
                      THEN ListRemove(registry, func)
                      ELSE registry
       /\ last' = [op |-> "remoteref", h |-> h, name |-> "_remoteref", obj |-> NoValue,
                   argv |-> NoValue,
                   out |-> IF Callable(func) THEN [ty |-> "result:" \o func, n |-> 0]
                           ELSE IF func = "None" THEN PyNone
                           ELSE [ty |-> "ref:" \o func, n |-> 0],
                   invoked |-> IF Callable(func) THEN <<func>> ELSE <<>>]
    /\ pending' = [pending EXCEPT ![h] = FALSE]
    /\ UNCHANGED <<handles, calls, threads, postVars, preVars, castVars>>

\* a flush that invokes the references and keeps the registry
FlushKeepsRegistry ==
    /\ last' = [NoLast EXCEPT !.op = "flush", !.invoked = SelectSeq(registry, Callable)]
    /\ registry' = registry
    /\ pending' = [h \in H |-> FALSE]
    /\ UNCHANGED <<handles, calls, threads, postVars, preVars, castVars>>

\* LazyEvalWrapper.trigger_all_remote_references
TriggerAllRemoteReferences ==
    /\ last' = [NoLast EXCEPT !.op = "flush", !.invoked = SelectSeq(registry, Callable)]
    /\ registry' = <<>>
    /\ pending' = [h \in H |-> FALSE]
    /\ UNCHANGED <<handles, calls, threads, postVars, preVars, castVars>>

(***************************************************************************)
(* Threads.  A thread performing a forcing operation runs _load_object     *)
(* (the same three steps open make_method.method) one step at a time;      *)
(* nothing orders the steps of different threads.                          *)
(***************************************************************************)
Threads == 1 .. MaxThreads
IdleThread == [pc |-> "idle", h |-> 0, obj |-> NoValue]

\* a step that takes the cache again before calling: the producer is not
\* invoked when the cache has been filled since the thread read it
ThreadCallRechecks(t) ==
    /\ threads[t].pc = "call"
    /\ LET h == threads[t].h IN
       IF handles[h].wrapped # PyNone
       THEN /\ threads' = [threads EXCEPT ![t] = [pc |-> "done", h |-> h, obj |-> handles[h].wrapped]]
            /\ UNCHANGED calls
       ELSE /\ calls' = [calls EXCEPT ![h] = @ + 1]
            /\ calls'[h] <= MaxCalls
            /\ threads' = [threads EXCEPT ![t] = [pc |-> "store", h |-> h, obj |-> handles[h].ret]]
    /\ UNCHANGED <<handles, registry, pending, last, postVars, preVars, castVars>>

\* obj = object.__getattribute__(self, "_wrapped"); if obj is None: ...
ThreadRead(t, h) ==
    /\ threads[t].pc \in {"idle", "done"}
    /\ handles[h].kind # "free"
    /\ threads' = [threads EXCEPT ![t] =
                      IF handles[h].wrapped = PyNone
                      THEN [pc |-> "call", h |-> h, obj |-> PyNone]
                      ELSE [pc |-> "done", h |-> h, obj |-> handles[h].wrapped]]
    /\ UNCHANGED <<handles, calls, registry, pending, last, postVars, preVars, castVars>>

\* cb = object.__getattribute__(self, "_callback"); obj = cb()
ThreadCall(t) ==
    /\ threads[t].pc = "call"
    /\ LET h == threads[t].h IN
       /\ calls' = [calls EXCEPT ![h] = @ + 1]
       /\ calls'[h] <= MaxCalls
       /\ threads' = [threads EXCEPT ![t] = [pc |-> "store", h |-> h, obj |-> handles[h].ret]]
    /\ UNCHANGED <<handles, registry, pending, last, postVars, preVars, castVars>>

\* object.__setattr__(self, "_wrapped", obj); return obj
ThreadStore(t) ==
    /\ threads[t].pc = "store"
    /\ handles' = [handles EXCEPT ![threads[t].h].wrapped = threads[t].obj]
    /\ threads' = [threads EXCEPT ![t].pc = "done"]
    /\ UNCHANGED <<calls, registry, pending, last, postVars, preVars, castVars>>

(***************************************************************************)
(* The flush with a re-entrant callback.                                   *)
(***************************************************************************)
MaxRefs == 3
FlushH == 1 .. MaxRefs
FlushRefs == {"f1", "f2", "f3", "nc"}

RECURSIVE FlushLoop(_, _, _, _, _)
\* the loop of trigger_all_remote_references from index i on (a list
\* iterator reads reg[i] while i is within the list as it is by then);
\* the callback of reference f calls handle g's _remoteref(), which removes
\* g's reference from the list and invokes it; inv: the invocations so far
FlushLoop(reg, i, inv, f, g) ==
    IF i > Len(reg) THEN inv
    ELSE LET func == reg[i] IN
         IF ~Callable(func) THEN FlushLoop(reg, i + 1, inv, f, g)
         ELSE IF func = f
              THEN LET rg == handles[g].rref
                       reg2 == IF RefTruthy(rg) /\ InSeq(rg, reg)
                               THEN ListRemove(reg, rg) ELSE reg
                       inv2 == Append(inv, func) \o (IF Callable(rg) THEN <<rg>> ELSE <<>>)
                   IN  FlushLoop(reg2, i + 1, inv2, f, g)
              ELSE FlushLoop(reg, i + 1, Append(inv, func), f, g)

\* LazyEvalWrapper.trigger_all_remote_references while the callback of
\* reference f calls the accessor of handle g, another handle's
TriggerAllReentrant(f, g) ==
    /\ Callable(f) /\ InSeq(f, registry)
    /\ handles[g].kind = "lazy" /\ handles[g].rref # f
    /\ last' = [NoLast EXCEPT !.op = "flush", !.invoked = FlushLoop(registry, 1, <<>>, f, g)]
    /\ registry' = <<>>
    /\ pending' = [h \in DOMAIN pending |-> FALSE]
    /\ UNCHANGED <<handles, calls, threads, postVars, preVars, castVars>>

\* MaxRefs handles constructed in turn, each with a remote reference
InitFlush ==
    /\ handles \in {[h \in FlushH |->
                        [kind |-> "lazy", base |-> "", ret |-> PyInt(3), flaky |-> FALSE,
                         wrapped |-> PyNone, rref |-> r[h]]] : r \in [FlushH -> FlushRefs]}
    /\ calls = [h \in FlushH |-> 0]
    /\ registry = [h \in FlushH |-> handles[h].rref]
    /\ pending = [h \in FlushH |-> TRUE]
    /\ last = NoLast
    /\ threads = [t \in Threads |-> IdleThread]
    /\ pstore = <<>> /\ plast = <<>> /\ fstore = <<>> /\ flast = <<>>
    /\ cin = <<>> /\ cout = <<>>

NextFlush ==
    \/ \E h \in FlushH : RemoteRef(h)
    \/ \E f \in FlushRefs, g \in FlushH : TriggerAllReentrant(f, g)

SpecFlush == InitFlush /\ [][NextFlush]_vars

(***************************************************************************)
(* SpecProxy: handles are constructed, used and flushed in any order.      *)
(***************************************************************************)
PostIdle == pstore = <<>> /\ plast = <<>>
PreIdle == fstore = <<>> /\ flast = <<>>
CastIdle == cin = <<>> /\ cout = <<>>

InitProxy ==
    /\ handles = [h \in H |-> FreeHandle]
    /\ calls = [h \in H |-> 0]
    /\ registry = <<>>
    /\ pending = [h \in H |-> FALSE]
    /\ last = NoLast
    /\ threads = [t \in Threads |-> IdleThread]
    /\ PostIdle /\ PreIdle /\ CastIdle

\* producers: [ret, flaky]; a flaky producer may raise on any call
LazyProducers ==
    {[ret |-> r, flaky |-> FALSE] : r \in LazyRets} \cup {[ret |-> PyInt(3), flaky |-> TRUE]}
TypedProducers ==
    {[base |-> t, flaky |-> FALSE] : t \in DeclTypes} \cup {[base |-> "int", flaky |-> TRUE]}

\* the arguments the model passes to a one-argument special method
MethodArgs == {ValArg(PyInt(4))} \cup {HandleArg(g) : g \in H}

NextProxy ==
    \/ \E h \in H, p \in LazyProducers : LazyInit(h, p.ret, p.flaky, "None")
    \/ \E h \in H, p \in TypedProducers : TypedInit(h, p.base, p.flaky)
    \/ \E h \in H, arg \in MethodArgs, b1 \in BOOLEAN, b2 \in BOOLEAN :
          Method(h, "__lt__", arg, b1, b2)
    \/ \E h \in H, b1 \in BOOLEAN : Method(h, "__int__", NoArg, b1, FALSE)
    \/ \E h \in H, boom \in BOOLEAN : Bool(h, boom)
    \/ \E h \in H, attr \in Attrs, boom \in BOOLEAN : GetAttr(h, attr, boom)

SpecProxy == InitProxy /\ [][NextProxy]_vars

(***************************************************************************)
(* SpecAttr: attributes are read, assigned and deleted through handles     *)
(* whose producers return a Record.                                        *)
(***************************************************************************)
SetAttrs == {"x", "_wrapped"}
SetVals == {PyInt(1), PyInt(2)}

NextAttr ==
    \/ \E h \in H, k \in {0, 1}, flaky \in BOOLEAN : LazyInit(h, PyRecord(k), flaky, "None")
    \/ \E h \in H, flaky \in BOOLEAN : TypedInit(h, "Record", flaky)
    \/ \E h \in H, boom \in BOOLEAN : GetAttr(h, "x", boom)
    \/ \E h \in H, attr \in SetAttrs, v \in SetVals, boom \in BOOLEAN : SetAttr(h, attr, v, boom)
    \/ \E h \in H, boom \in BOOLEAN : DelAttr(h, "x", boom)

SpecAttr == InitProxy /\ [][NextAttr]_vars

(***************************************************************************)
(* SpecRace: threads force the same handles concurrently.                  *)
(***************************************************************************)
RaceRets == {PyInt(3), PyInt(4)}

NextRace ==
    \/ \E h \in H, ret \in RaceRets : LazyInit(h, ret, FALSE, "None")
    \/ \E t \in Threads, h \in H : ThreadRead(t, h)
    \/ \E t \in Threads : ThreadCall(t)
    \/ \E t \in Threads : ThreadStore(t)

SpecRace == InitProxy /\ [][NextRace]_vars

(***************************************************************************)
(* SpecRemote: the remote-reference registry.  Every producer returns 3;   *)
(* the remote references vary.                                             *)
(***************************************************************************)
NextRemote ==
    \/ \E h \in H, rref \in RefVals : LazyInit(h, PyInt(3), FALSE, rref)
    \/ \E h \in H : TypedInit(h, "int", FALSE)
    \/ \E h \in H : Bool(h, FALSE)
    \/ \E h \in H : GetAttr(h, "_remote_reference", FALSE)
    \/ \E h \in H : RemoteRef(h)
    \/ TriggerAllRemoteReferences

SpecRemote == InitProxy /\ [][NextRemote]_vars

(***************************************************************************)
(* SpecOps: operators applied to handles.  `x op y` calls type(x)'s slot   *)
(* for op and, when that is missing or answers NotImplemented, type(y)'s   *)
(* reflected slot; a built-in left operand answers NotImplemented for a    *)
(* handle on its right.                                                    *)
(***************************************************************************)
BinOps == {"add", "sub", "floordiv"}
Sides == {"left", "right"}
Slot(op) == "__" \o op \o "__"
RSlot(op) == "__r" \o op \o "__"

\* the value of the expression once no slot is left to ask
OperatorResult(r) == IF r = NotImplemented THEN Raise("TypeError") ELSE r

\* `handle op v` (side "left") or `v op handle` (side "right"), v a built-in
\* value: the slot of the handle's class, when WrapperBase.__new__ defined it,
\* is WrapperBase.make_method.method
Operator(h, op, side, v, boom) ==
    /\ handles[h].kind # "free"
    /\ LET slot == IF side = "left" THEN Slot(op) ELSE RSlot(op) IN
       IF Installed(handles[h], slot)
       THEN /\ BoomOk(handles, h, boom)
            /\ LET r == MethodResolve(handles, calls, h, boom) IN
               /\ handles' = r.hs
               /\ calls' = r.cs
               /\ last' = [op |-> "operator", h |-> h, name |-> slot, obj |-> r.obj,
                           argv |-> v,
                           out |-> IF IsRaise(r.obj) THEN r.obj
                                   ELSE OperatorResult(Apply(slot, r.obj, <<v>>)),
                           invoked |-> <<>>]
       ELSE /\ ~boom
            /\ UNCHANGED <<handles, calls>>
            /\ last' = [op |-> "operator", h |-> h, name |-> slot, obj |-> NoValue,
                        argv |-> v, out |-> Raise("TypeError"), invoked |-> <<>>]
    /\ \A g \in H : calls'[g] <= MaxCalls
    /\ UNCHANGED <<registry, pending, threads, postVars, preVars, castVars>>

\* the values the producers return and the built-in operands
OpRets == {PyInt(3), PyInt(5)}
OpArgs == {PyInt(1), PyInt(7)}

NextOps ==
    \/ \E h \in H, ret \in OpRets : LazyInit(h, ret, FALSE, "None")
    \/ \E h \in H : TypedInit(h, "int", FALSE)
    \/ \E h \in H, op \in BinOps, side \in Sides, v \in OpArgs : Operator(h, op, side, v, FALSE)
    \/ \E h \in H : Method(h, "__str__", NoArg, FALSE, FALSE)
    \/ \E h \in H, v \in OpArgs \cup OpRets : Method(h, "__eq__", ValArg(v), FALSE, FALSE)
    \/ \E h \in H : Bool(h, FALSE)

SpecOps == InitProxy /\ [][NextOps]_vars

(***************************************************************************)
(* Mapping trees.  A (nested) mapping is a function from paths to entries: *)
(* the entry at <<>> is the value itself, the entry at <<k1, .., kn>> the  *)
(* value stored under k1, .., kn.  An entry is a leaf (a number), a plain  *)
(* dict, or a wrapper ("proxy") with its _update_func (uf) and             *)
(* _update_obj (uo).                                                       *)
(***************************************************************************)
MaxDepth == 2

Keys == {"a", "b"}
LeafVals == {1, 2}

Ent(kind, v, uf, uo) == [kind |-> kind, v |-> v, uf |-> uf, uo |-> uo]
Leaf(v) == (<<>> :> Ent("leaf", v, "none", ""))
EmptyDict == (<<>> :> Ent("plain", 0, "none", ""))
Absent == (<<>> :> Ent("absent", 0, "none", ""))
IsDict(e) == e.kind \in {"plain", "proxy"}

IsPrefix(p, x) == Len(p) <= Len(x) /\ SubSeq(x, 1, Len(p)) = p
Drop(x, n) == SubSeq(x, n + 1, Len(x))
Front(p) == SubSeq(p, 1, Len(p) - 1)

\* the value stored at path p of tree t
Sub(t, p) ==
    [q \in {Drop(x, Len(p)) : x \in {y \in DOMAIN t : IsPrefix(p, y)}} |-> t[p \o q]]

\* t with the value at path p replaced by (or set to) the tree sub
Graft(t, p, sub) ==
    LET keep == {x \in DOMAIN t : ~IsPrefix(p, x)}
        new == {p \o q : q \in DOMAIN sub}
    IN  [x \in keep \cup new |-> IF x \in new THEN sub[Drop(x, Len(p))] ELSE t[x]]

TopKeys(t) == {x[1] : x \in {y \in DOMAIN t : Len(y) = 1}}

SetMax(S) == CHOOSE n \in S : \A m \in S : m <= n
\* levels of nesting: 0 for a leaf, 1 for a mapping of leaves, ...
Extent(t) == SetMax({Len(x) + (IF IsDict(t[x]) THEN 1 ELSE 0) : x \in DOMAIN t})

\* the plain dict with the entries f[k], k in Keys, that are not Absent
MkDict(f) ==
    LET dom == {<<>>} \cup UNION {{<<k>> \o q : q \in DOMAIN f[k]} : k \in {j \in Keys : f[j] # Absent}}
    IN  [x \in dom |-> IF x = <<>> THEN EmptyDict[<<>>] ELSE f[x[1]][Tail(x)]]

RECURSIVE PlainTrees(_)
\* every plain value of at most r levels of nesting
PlainTrees(r) ==
    IF r = 0 THEN {Leaf(v) : v \in LeafVals}
    ELSE {Leaf(v) : v \in LeafVals}
         \cup {MkDict(f) : f \in [Keys -> PlainTrees(r - 1) \cup {Absent}]}

PlainDicts(r) == {t \in PlainTrees(r) : IsDict(t[<<>>])}

\* the values written and the mappings merged by the operations of the model
InputVals == PlainTrees(MaxDepth - 1)
InputDicts == PlainDicts(MaxDepth)

\* dict.update(other) on the mapping at path p of t: every top-level entry
\* of other replaces the entry of the same key
DictUpdate(t, p, other) ==
    LET gone == {x \in DOMAIN t : \E k \in TopKeys(other) : IsPrefix(p \o <<k>>, x)}
        new == {p \o q : q \in DOMAIN other \ {<<>>}}
    IN  [x \in (DOMAIN t \ gone) \cup new |->
            IF x \in new THEN other[Drop(x, Len(p))] ELSE t[x]]

(***************************************************************************)
(* ProxyDictPostWrite                                                      *)
(***************************************************************************)
RECURSIVE PostInit(_, _)
\* ProxyDictPostWrite.__init__(update_obj, update_func, t): every nested
\* dict is replaced by a wrapper whose update_func is the parent's
\* _set_callback
PostInit(t, uf) ==
    [x \in DOMAIN t |->
        IF x = <<>> THEN Ent("proxy", 0, uf, "owner")
        ELSE IF IsDict(t[<<x[1]>>])
             THEN PostInit(Sub(t, <<x[1]>>), "parent")[Tail(x)]
             ELSE t[x]]

RECURSIVE PostSetCallback(_, _)
\* ProxyDictPostWrite._set_callback of the wrapper at p: the calls of the
\* owner's update_func it ends in, each as <<update_obj, mapping passed>>
PostSetCallback(t, p) ==
    IF t[p].uf = "func" THEN << <<t[p].uo, p>> >>
    ELSE IF t[p].uf = "parent" /\ p # <<>> THEN PostSetCallback(t, Front(p))
    ELSE <<>>

\* m[key] = val on the mapping at path p: ProxyDictPostWrite.__setitem__
\* on a wrapper, dict.__setitem__ on a plain dict
PostSetItem(p, key, val) ==
    /\ p \in DOMAIN pstore /\ IsDict(pstore[p])
    /\ LET t == Graft(pstore, p \o <<key>>, val) IN
       /\ Extent(t) <= MaxDepth
       /\ pstore' = t
       /\ plast' = [op |-> "set", path |-> p,
                    notes |-> IF pstore[p].kind = "proxy" THEN PostSetCallback(t, p)
                              ELSE <<>>]
    /\ UNCHANGED <<proxyVars, preVars, castVars>>

\* ProxyDictPostWrite._do_update
PostDoUpdate(t, p, E) == DictUpdate(t, p, PostInit(E, "parent"))

\* m.update(E) on the mapping at path p: ProxyDictPostWrite.update on a
\* wrapper, dict.update on a plain dict
PostUpdate(p, E) ==
    /\ p \in DOMAIN pstore /\ IsDict(pstore[p])
    /\ LET t == IF pstore[p].kind = "proxy" THEN PostDoUpdate(pstore, p, E)
                ELSE DictUpdate(pstore, p, E) IN
       /\ Extent(t) <= MaxDepth
       /\ pstore' = t
       /\ plast' = [op |-> "update", path |-> p,
                    notes |-> IF pstore[p].kind = "proxy" THEN PostSetCallback(t, p)
                              ELSE <<>>]
    /\ UNCHANGED <<proxyVars, preVars, castVars>>

\* a _to_dict that copies the items without unwrapping the nested wrappers
ToDictShallow(t) ==
    [x \in DOMAIN t |-> IF x = <<>> THEN EmptyDict[<<>>] ELSE t[x]]

RECURSIVE ToDict(_)
\* ProxyDictPostWrite._to_dict of the wrapper t: a new dict; an item that is
\* a ProxyDictPostWrite is unwrapped in turn, any other item is kept
ToDict(t) ==
    [x \in DOMAIN t |->
        IF x = <<>> THEN EmptyDict[<<>>]
        ELSE IF t[<<x[1]>>].kind = "proxy"
             THEN ToDict(Sub(t, <<x[1]>>))[Tail(x)]
             ELSE t[x]]

\* m.to_dict() on the wrapper at path p
PostToDict(p) ==
    /\ p \in DOMAIN pstore /\ pstore[p].kind = "proxy"
    /\ plast' = [op |-> "to_dict", path |-> p, notes |-> <<>>, snap |-> ToDict(Sub(pstore, p))]
    /\ UNCHANGED <<pstore, proxyVars, preVars, castVars>>

\* t without the entry at path x
Prune(t, x) == [y \in {z \in DOMAIN t : ~IsPrefix(x, z)} |-> t[y]]

\* del m[key] on the mapping at path p: ProxyDictPostWrite inherits
\* dict.__delitem__
PostDelItem(p, key) ==
    /\ p \in DOMAIN pstore /\ IsDict(pstore[p])
    /\ p \o <<key>> \in DOMAIN pstore
    /\ pstore' = Prune(pstore, p \o <<key>>)
    /\ plast' = [op |-> "del", path |-> p, notes |-> <<>>]
    /\ UNCHANGED <<proxyVars, preVars, castVars>>

\* m.pop(key, None): ProxyDictPostWrite inherits dict.pop
PostPop(p, key) ==
    /\ p \in DOMAIN pstore /\ IsDict(pstore[p])
    /\ pstore' = IF p \o <<key>> \in DOMAIN pstore THEN Prune(pstore, p \o <<key>>) ELSE pstore
    /\ plast' = [op |-> "pop", path |-> p, notes |-> <<>>]
    /\ UNCHANGED <<proxyVars, preVars, castVars>>

\* m.setdefault(key, val): ProxyDictPostWrite inherits dict.setdefault
PostSetDefault(p, key, val) ==
    /\ p \in DOMAIN pstore /\ IsDict(pstore[p])
    /\ LET t == IF p \o <<key>> \in DOMAIN pstore THEN pstore
                ELSE Graft(pstore, p \o <<key>>, val) IN
       /\ Extent(t) <= MaxDepth
       /\ pstore' = t
    /\ plast' = [op |-> "setdefault", path |-> p, notes |-> <<>>]
    /\ UNCHANGED <<proxyVars, preVars, castVars>>

\* m.clear(): ProxyDictPostWrite inherits dict.clear
PostClear(p) ==
    /\ p \in DOMAIN pstore /\ IsDict(pstore[p])
    /\ pstore' = [y \in {z \in DOMAIN pstore : ~IsPrefix(p, z) \/ z = p} |-> pstore[y]]
    /\ plast' = [op |-> "clear", path |-> p, notes |-> <<>>]
    /\ UNCHANGED <<proxyVars, preVars, castVars>>

ProxyIdle ==
    /\ handles = <<>> /\ calls = <<>> /\ registry = <<>> /\ pending = <<>> /\ last = <<>>
    /\ threads = <<>>

MapPaths == UNION {[1 .. n -> Keys] : n \in 0 .. MaxDepth}

InitPost ==
    /\ pstore \in {PostInit(m, "func") : m \in InputDicts}
    /\ plast = [op |-> "init", path |-> <<>>, notes |-> <<>>]
    /\ ProxyIdle /\ PreIdle /\ CastIdle

NextPost ==
    \/ \E p \in MapPaths, key \in Keys, val \in InputVals : PostSetItem(p, key, val)
    \/ \E p \in MapPaths, E \in InputDicts : PostUpdate(p, E)

SpecPost == InitPost /\ [][NextPost]_vars

(***************************************************************************)
(* SpecPostAll: every dict operation on a ProxyDictPostWrite tree, and its *)
(* snapshot.                                                               *)
(***************************************************************************)
PostAllVals == {Leaf(2), MkDict([k \in Keys |-> IF k = "b" THEN Leaf(1) ELSE Absent])}
PostAllDicts == {MkDict([k \in Keys |-> IF k = j THEN v ELSE Absent]) : j \in Keys, v \in PostAllVals}
PostAllInit == {d \in InputDicts : \A x \in DOMAIN d : d[x].kind = "leaf" => d[x].v = 1}

InitPostAll ==
    /\ pstore \in {PostInit(m, "func") : m \in PostAllInit}
    /\ plast = [op |-> "init", path |-> <<>>, notes |-> <<>>]
    /\ ProxyIdle /\ PreIdle /\ CastIdle

NextPostAll ==
    \/ \E p \in DOMAIN pstore, key \in Keys, val \in PostAllVals : PostSetItem(p, key, val)
    \/ \E p \in DOMAIN pstore, E \in PostAllDicts : PostUpdate(p, E)
    \/ \E p \in DOMAIN pstore : PostToDict(p)
    \/ \E p \in DOMAIN pstore, key \in Keys : PostDelItem(p, key)
    \/ \E p \in DOMAIN pstore, key \in Keys : PostPop(p, key)
    \/ \E p \in DOMAIN pstore, key \in Keys, val \in PostAllVals : PostSetDefault(p, key, val)
    \/ \E p \in DOMAIN pstore : PostClear(p)

SpecPostAll == InitPostAll /\ [][NextPostAll]_vars

(***************************************************************************)
(* ProxyDictPreWrite                                                       *)
(***************************************************************************)
RECURSIVE PreInit(_, _, _)
\* ProxyDictPreWrite.__init__(update_obj, update_func, t): every nested
\* dict under key k is replaced by ProxyDictPreWrite(k, self._nested_callback, i)
PreInit(t, uf, uo) ==
    [x \in DOMAIN t |->
        IF x = <<>> THEN Ent("proxy", 0, uf, uo)
        ELSE IF IsDict(t[<<x[1]>>])
             THEN PreInit(Sub(t, <<x[1]>>), "nested", x[1])[Tail(x)]
             ELSE t[x]]

\* what a callback returns: None, another falsy value, or a (key, value) pair
RetNone == [tag |-> "none", k |-> "", v |-> Absent]
RetFalsy == [tag |-> "falsy", k |-> "", v |-> Absent]
RetPair(k, v) == [tag |-> "pair", k |-> k, v |-> v]

\* the owner's update_func(update_obj, (key, value)), answering as resp says
Responses == {"none", "falsy", "same", "rewrite"}
OnWrite(resp, kv) ==
    CASE resp = "none" -> RetNone
      [] resp = "falsy" -> RetFalsy
      [] resp = "same" -> kv
      [] resp = "rewrite" -> RetPair("r", Leaf(1))

RECURSIVE SetCallbackDropsPrefix(_, _, _, _)
\* a _nested_callback that hands the pair to the parent's _set_callback
\* without the prefix
SetCallbackDropsPrefix(t, p, kv, resp) ==
    IF t[p].uf = "none" THEN [ret |-> kv, consulted |-> <<>>]
    ELSE LET r == IF t[p].uf = "func"
                  THEN [ret |-> OnWrite(resp, kv),
                        consulted |-> << <<t[p].uo, kv.k, kv.v>> >>]
                  ELSE SetCallbackDropsPrefix(t, Front(p), kv, resp)
         IN  IF r.ret.tag # "pair" THEN [ret |-> RetNone, consulted |-> r.consulted]
             ELSE r

RECURSIVE PreSetCallback(_, _, _, _)
\* ProxyDictPreWrite._set_callback(key_value) of the wrapper at p, with
\* _nested_callback inline: [ret, consulted], consulted the calls of the
\* owner's update_func as <<update_obj, key, value>>
PreSetCallback(t, p, kv, resp) ==
    IF t[p].uf = "none" THEN [ret |-> kv, consulted |-> <<>>]
    ELSE LET r == IF t[p].uf = "func"
                  THEN [ret |-> OnWrite(resp, kv),
                        consulted |-> << <<t[p].uo, kv.k, kv.v>> >>]
                  ELSE PreSetCallback(t, Front(p),
                                      RetPair(t[p].uo \o "." \o kv.k, kv.v), resp)
         IN  IF r.ret.tag # "pair" THEN [ret |-> RetNone, consulted |-> r.consulted]
             ELSE r

\* a __setitem__ that stores the pair it was given whenever the callback
\* chain accepts, instead of the pair the chain returned
SetItemStoresGivenPair(p, key, val, resp) ==
    /\ p \in DOMAIN fstore /\ fstore[p].kind = "proxy"
    /\ LET r == PreSetCallback(fstore, p, RetPair(key, val), resp)
           t == IF r.ret.tag = "pair" THEN Graft(fstore, p \o <<key>>, val)
                ELSE fstore
       IN  /\ Extent(t) <= MaxDepth
           /\ fstore' = t
           /\ flast' = [op |-> "set", path |-> p, consulted |-> r.consulted,
                        ret |-> r.ret.tag]
    /\ UNCHANGED <<proxyVars, postVars, castVars>>

\* ProxyDictPreWrite.__setitem__ on the wrapper at p
PreSetItem(p, key, val, resp) ==
    /\ p \in DOMAIN fstore /\ fstore[p].kind = "proxy"
    /\ LET r == PreSetCallback(fstore, p, RetPair(key, val), resp)
           t == IF r.ret.tag = "pair" THEN Graft(fstore, p \o <<r.ret.k>>, r.ret.v)
                ELSE fstore
       IN  /\ (Extent(t) <= MaxDepth \/ Extent(t) <= Extent(fstore))
           /\ fstore' = t
           /\ flast' = [op |-> "set", path |-> p, consulted |-> r.consulted,
                        ret |-> r.ret.tag]
    /\ UNCHANGED <<proxyVars, postVars, castVars>>

\* dict.__setitem__ on a plain dict stored in the tree
PreDictSetItem(p, key, val) ==
    /\ p \in DOMAIN fstore /\ fstore[p].kind = "plain"
    /\ LET t == Graft(fstore, p \o <<key>>, val) IN
       /\ Extent(t) <= MaxDepth
       /\ fstore' = t
       /\ flast' = [op |-> "set", path |-> p, consulted |-> <<>>, ret |-> "-"]
    /\ UNCHANGED <<proxyVars, postVars, castVars>>

\* m.update(E): ProxyDictPreWrite inherits dict.update
PreUpdate(p, E) ==
    /\ p \in DOMAIN fstore /\ IsDict(fstore[p])
    /\ LET t == DictUpdate(fstore, p, E) IN
       /\ Extent(t) <= MaxDepth
       /\ fstore' = t
       /\ flast' = [op |-> "update", path |-> p, consulted |-> <<>>, ret |-> "-"]
    /\ UNCHANGED <<proxyVars, postVars, castVars>>

\* m.setdefault(key, val): ProxyDictPreWrite inherits dict.setdefault
PreSetDefault(p, key, val) ==
    /\ p \in DOMAIN fstore /\ IsDict(fstore[p])
    /\ LET t == IF p \o <<key>> \in DOMAIN fstore THEN fstore
                ELSE Graft(fstore, p \o <<key>>, val) IN
       /\ Extent(t) <= MaxDepth
       /\ fstore' = t
       /\ flast' = [op |-> "setdefault", path |-> p, consulted |-> <<>>, ret |-> "-"]
    /\ UNCHANGED <<proxyVars, postVars, castVars>>

\* the mappings a filtering mapping is constructed from
PreInitDicts ==
    {d \in InputDicts : /\ \A x \in DOMAIN d : d[x].kind = "leaf" => d[x].v = 1
                        /\ <<"b">> \in DOMAIN d => d[<<"b">>].kind = "leaf"}
\* the values written and the mappings merged
PreVals == {Leaf(2), MkDict([k \in Keys |-> IF k = "b" THEN Leaf(2) ELSE Absent])}
PreDicts == {MkDict([k \in Keys |-> IF k = j THEN v ELSE Absent]) : j \in Keys, v \in PreVals}

InitPre ==
    /\ fstore \in {PreInit(m, "func", "owner") : m \in PreInitDicts}
    /\ flast = [op |-> "init", path |-> <<>>, consulted |-> <<>>, ret |-> "-"]
    /\ ProxyIdle /\ PostIdle /\ CastIdle

NextPre ==
    \/ \E p \in DOMAIN fstore, key \in Keys, val \in PreVals, resp \in Responses :
          PreSetItem(p, key, val, resp)
    \/ \E p \in DOMAIN fstore, key \in Keys, val \in PreVals : PreDictSetItem(p, key, val)
    \/ \E p \in DOMAIN fstore, E \in PreDicts : PreUpdate(p, E)
    \/ \E p \in DOMAIN fstore, key \in Keys, val \in PreVals : PreSetDefault(p, key, val)

SpecPre == InitPre /\ [][NextPre]_vars

(***************************************************************************)
(* cast_basic_type and convert_bool.  A Python str is the sequence of its  *)
(* characters.  An outcome is [kind, s, n, e]: None, a str s, a bool n     *)
(* (0/1), an int n, a float n * 10^e, a list/tuple of the characters s,    *)
(* an empty dict, or an exception raised to the caller.                    *)
(***************************************************************************)
MaxStrLen == 2

Uppers == <<"A", "B", "C", "D", "E", "F", "G", "H", "I", "J", "K", "L", "M",
            "N", "O", "P", "Q", "R", "S", "T", "U", "V", "W", "X", "Y", "Z">>
Lowers == <<"a", "b", "c", "d", "e", "f", "g", "h", "i", "j", "k", "l", "m",
            "n", "o", "p", "q", "r", "s", "t", "u", "v", "w", "x", "y", "z">>
Digits == <<"0", "1", "2", "3", "4", "5", "6", "7", "8", "9">>

\* str.lower()
LowerChar(c) ==
    IF \E i \in 1 .. Len(Uppers) : Uppers[i] = c
    THEN Lowers[CHOOSE i \in 1 .. Len(Uppers) : Uppers[i] = c]
    ELSE c
StrLower(s) == [i \in 1 .. Len(s) |-> LowerChar(s[i])]

\* str.strip()
IsSpace(c) == c \in {" ", "\t", "\n"}
RECURSIVE LStrip(_)
LStrip(s) == IF s # <<>> /\ IsSpace(Head(s)) THEN LStrip(Tail(s)) ELSE s
RECURSIVE RStrip(_)
RStrip(s) == IF s # <<>> /\ IsSpace(s[Len(s)]) THEN RStrip(SubSeq(s, 1, Len(s) - 1)) ELSE s
StrStrip(s) == LStrip(RStrip(s))

OutNone == [kind |-> "none", s |-> <<>>, n |-> 0, e |-> 0]
OutStr(s) == [kind |-> "str", s |-> s, n |-> 0, e |-> 0]
OutBool(b) == [kind |-> "bool", s |-> <<>>, n |-> IF b THEN 1 ELSE 0, e |-> 0]
OutInt(n) == [kind |-> "int", s |-> <<>>, n |-> n, e |-> 0]
OutFloat(n, e) == [kind |-> "float", s |-> <<>>, n |-> n, e |-> e]
OutSeq(kind, s) == [kind |-> kind, s |-> s, n |-> 0, e |-> 0]
OutDict == [kind |-> "dict", s |-> <<>>, n |-> 0, e |-> 0]
OutRaise(exc) == [kind |-> "raise", s |-> exc, n |-> 0, e |-> 0]
Pending == [kind |-> "pending", s |-> <<>>, n |-> 0, e |-> 0]

\* convert_bool
ConvertBool(s0) ==
    LET s == StrLower(StrStrip(s0)) IN
    IF s = <<"t", "r", "u", "e">> THEN OutBool(TRUE)
    ELSE IF s = <<"f", "a", "l", "s", "e">> \/ s = <<>> THEN OutBool(FALSE)
    ELSE OutRaise(<<"ValueError">>)

IsDigit(c) == \E i \in 1 .. Len(Digits) : Digits[i] = c
DigitVal(c) == (CHOOSE i \in 1 .. Len(Digits) : Digits[i] = c) - 1
AllDigits(s) == s # <<>> /\ \A i \in 1 .. Len(s) : IsDigit(s[i])
RECURSIVE DigitsVal(_)
DigitsVal(s) == IF s = <<>> THEN 0 ELSE 10 * DigitsVal(SubSeq(s, 1, Len(s) - 1)) + DigitVal(s[Len(s)])
HasSign(s) == s # <<>> /\ Head(s) \in {"+", "-"}
Unsigned(s) == IF HasSign(s) THEN Tail(s) ELSE s
Signed(s, n) == IF s # <<>> /\ Head(s) = "-" THEN 0 - n ELSE n

\* int(value) of a str without "_"
IntOfStr(s0) ==
    LET s == StrStrip(s0) IN
    IF AllDigits(Unsigned(s)) THEN OutInt(Signed(s, DigitsVal(Unsigned(s))))
    ELSE OutRaise(<<"ValueError">>)

Index(s, c) == IF \E i \in 1 .. Len(s) : s[i] = c
               THEN CHOOSE i \in 1 .. Len(s) : s[i] = c /\ \A j \in 1 .. (i - 1) : s[j] # c
               ELSE 0

\* float(value) of a str over digits, sign, "." and "e"/"E" (no "_", inf, nan)
FloatOfStr(s0) ==
    LET s == StrLower(StrStrip(s0))
        u == Unsigned(s)
        ie == Index(u, "e")
        mant == IF ie = 0 THEN u ELSE SubSeq(u, 1, ie - 1)
        expo == IF ie = 0 THEN <<"0">> ELSE SubSeq(u, ie + 1, Len(u))
        id == Index(mant, ".")
        whole == IF id = 0 THEN mant ELSE SubSeq(mant, 1, id - 1)
        frac == IF id = 0 THEN <<>> ELSE SubSeq(mant, id + 1, Len(mant))
        ok == /\ whole \o frac # <<>>
              /\ \A i \in 1 .. Len(whole \o frac) : IsDigit((whole \o frac)[i])
              /\ AllDigits(Unsigned(expo))
    IN  IF ok
        THEN OutFloat(Signed(s, DigitsVal(whole \o frac)),
                      Signed(expo, DigitsVal(Unsigned(expo))) - Len(frac))
        ELSE OutRaise(<<"ValueError">>)

\* list(value) / tuple(value) / dict(value) of a str
SeqOfStr(kind, s) == OutSeq(kind, s)
DictOfStr(s) == IF s = <<>> THEN OutDict ELSE OutRaise(<<"ValueError">>)

\* the keys of basic_types
TagFloat == <<"f", "l", "o", "a", "t">>
TagInt == <<"i", "n", "t">>
TagStr == <<"s", "t", "r">>
TagList == <<"l", "i", "s", "t">>
TagTuple == <<"t", "u", "p", "l", "e">>
TagDict == <<"d", "i", "c", "t">>
TagBool == <<"b", "o", "o", "l">>
BasicTypeKeys == {TagFloat, TagInt, TagStr, TagList, TagTuple, TagDict, TagBool}

\* basic_types[key](value)
BasicType(key, value) ==
    CASE key = TagFloat -> FloatOfStr(value)
      [] key = TagInt -> IntOfStr(value)
      [] key = TagStr -> OutStr(value)
      [] key = TagList -> SeqOfStr("list", value)
      [] key = TagTuple -> SeqOfStr("tuple", value)
      [] key = TagDict -> DictOfStr(value)
      [] key = TagBool -> ConvertBool(value)

\* type_str.split("/")[0]
FirstPart(s) == IF Index(s, "/") = 0 THEN s ELSE SubSeq(s, 1, Index(s, "/") - 1)
IsContainerTag(type_str) == FirstPart(type_str) \in {TagList, TagTuple, TagDict}

(***************************************************************************)
(* Values with items.  A list or tuple is OutSeq(kind, items), a dict is   *)
(* OutMap(items) with items [k, v] in insertion order; str(value) is the   *)
(* text Python prints for it.                                              *)
(***************************************************************************)
MaxListLen == 3

OutMap(items) == [kind |-> "dict", s |-> items, n |-> 0, e |-> 0]
KV(k, v) == [k |-> k, v |-> v]

RECURSIVE NatStr(_)
NatStr(n) == IF n < 10 THEN <<Digits[n + 1]>> ELSE NatStr(n \div 10) \o <<Digits[(n % 10) + 1]>>
\* str(n) of an int
IntStr(n) == IF n < 0 THEN <<"-">> \o NatStr(0 - n) ELSE NatStr(n)

Zeros(k) == [i \in 1 .. k |-> "0"]
\* repr(x) of the float x = n * 10^e
FloatStr(n, e) ==
    LET ds == NatStr(IF n < 0 THEN 0 - n ELSE n)
        sign == IF n < 0 THEN <<"-">> ELSE <<>>
    IN  IF e >= 0 THEN sign \o ds \o Zeros(e) \o <<".", "0">>
        ELSE LET pad == IF Len(ds) <= 0 - e THEN Zeros(1 - e - Len(ds)) \o ds ELSE ds
             IN  sign \o SubSeq(pad, 1, Len(pad) + e) \o <<".">>
                      \o SubSeq(pad, Len(pad) + e + 1, Len(pad))

RECURSIVE Join(_, _)
\* sep.join(parts)
Join(parts, sep) ==
    IF parts = <<>> THEN <<>>
    ELSE IF Len(parts) = 1 THEN parts[1]
    ELSE parts[1] \o sep \o Join(Tail(parts), sep)

RECURSIVE ReprOf(_)
\* repr(value); the strs of the model hold no quote and no backslash
ReprOf(v) ==
    CASE v.kind = "none" -> <<"N", "o", "n", "e">>
      [] v.kind = "bool" -> IF v.n = 1 THEN <<"T", "r", "u", "e">> ELSE <<"F", "a", "l", "s", "e">>
      [] v.kind = "int" -> IntStr(v.n)
      [] v.kind = "float" -> FloatStr(v.n, v.e)
      [] v.kind = "str" -> <<"'">> \o v.s \o <<"'">>
      [] v.kind = "list" ->
            <<"[">> \o Join([i \in 1 .. Len(v.s) |-> ReprOf(v.s[i])], <<",", " ">>) \o <<"]">>
      [] v.kind = "tuple" ->
            <<"(">> \o Join([i \in 1 .. Len(v.s) |-> ReprOf(v.s[i])], <<",", " ">>)
                  \o (IF Len(v.s) = 1 THEN <<",">> ELSE <<>>) \o <<")">>
      [] v.kind = "dict" ->
            <<"{">> \o Join([i \in 1 .. Len(v.s) |->
                                ReprOf(v.s[i].k) \o <<":", " ">> \o ReprOf(v.s[i].v)],
                            <<",", " ">>) \o <<"}">>

\* str(value)
StrOfValue(v) == IF v.kind = "str" THEN v.s ELSE ReprOf(v)

\* type(value).__name__
TypeName(v) ==
    CASE v.kind = "none" -> <<"N", "o", "n", "e", "T", "y", "p", "e">>
      [] v.kind = "bool" -> TagBool
      [] v.kind = "int" -> TagInt
      [] v.kind = "float" -> TagFloat
      [] v.kind = "str" -> TagStr
      [] v.kind = "list" -> TagList
      [] v.kind = "tuple" -> TagTuple
      [] v.kind = "dict" -> TagDict

\* get_basic_type(value)
GetBasicType(value) ==
    IF /\ value.kind \in {"list", "tuple"} /\ value.s # <<>>
       /\ \A i \in 1 .. Len(value.s) : value.s[i].kind = value.s[1].kind
    THEN TypeName(value) \o <<"/">> \o TypeName(value.s[1])
    ELSE IF /\ value.kind = "dict" /\ value.s # <<>>
            /\ \A i \in 1 .. Len(value.s) : value.s[i].v.kind = value.s[1].v.kind
         THEN TagDict \o <<"/">> \o TypeName(value.s[1].v)
         ELSE TypeName(value)

(***************************************************************************)
(* json.loads and yaml.load (SafeLoader) on the texts str() prints for the *)
(* values of the model: scalars, and flow lists and mappings of them.  The *)
(* strs inside hold no comma, colon, bracket, quote or backslash.          *)
(***************************************************************************)
Fail == OutRaise(<<"ValueError">>)
IsFail(r) == r.kind = "raise"
LastOf(s) == s[Len(s)]
Inner(s) == SubSeq(s, 2, Len(s) - 1)
Opening == {"[", "{", "("}
Closing == {"]", "}", ")"}

RECURSIVE SplitFrom(_, _, _, _, _, _)
\* s split at the occurrences of c outside brackets
SplitFrom(s, c, i, depth, cur, acc) ==
    IF i > Len(s) THEN Append(acc, cur)
    ELSE IF s[i] = c /\ depth = 0 THEN SplitFrom(s, c, i + 1, 0, <<>>, Append(acc, cur))
    ELSE SplitFrom(s, c, i + 1,
                   depth + (IF s[i] \in Opening THEN 1 ELSE 0) - (IF s[i] \in Closing THEN 1 ELSE 0),
                   Append(cur, s[i]), acc)
SplitTop(s, c) == SplitFrom(s, c, 1, 0, <<>>, <<>>)

\* str.upper(), str.capitalize()
UpperChar(c) ==
    IF \E i \in 1 .. Len(Lowers) : Lowers[i] = c
    THEN Uppers[CHOOSE i \in 1 .. Len(Lowers) : Lowers[i] = c]
    ELSE c
StrUpper(s) == [i \in 1 .. Len(s) |-> UpperChar(s[i])]
Capitalize(s) == IF s = <<>> THEN s ELSE <<UpperChar(s[1])>> \o StrLower(Tail(s))
Cases(s) == {s, Capitalize(s), StrUpper(s)}

IsQuoted(t, q) == Len(t) >= 2 /\ Head(t) = q /\ LastOf(t) = q
PlainInt(t) == AllDigits(Unsigned(t)) /\ (Len(Unsigned(t)) = 1 \/ Head(Unsigned(t)) # "0")
HasDot(t) == Index(t, ".") # 0

\* a JSON scalar
JsonScalar(t) ==
    IF t = <<"t", "r", "u", "e">> THEN OutBool(TRUE)
    ELSE IF t = <<"f", "a", "l", "s", "e">> THEN OutBool(FALSE)
    ELSE IF t = <<"n", "u", "l", "l">> THEN OutNone
    ELSE IF IsQuoted(t, "\"") THEN OutStr(Inner(t))
    ELSE IF Head(t) # "+" /\ PlainInt(t) THEN IntOfStr(t)
    ELSE IF Head(t) # "+" /\ HasDot(t) /\ Index(t, ".") > 1 /\ LastOf(t) # "." THEN FloatOfStr(t)
    ELSE Fail

YamlTrue == Cases(<<"t", "r", "u", "e">>) \cup Cases(<<"y", "e", "s">>) \cup Cases(<<"o", "n">>)
YamlFalse == Cases(<<"f", "a", "l", "s", "e">>) \cup Cases(<<"n", "o">>) \cup Cases(<<"o", "f", "f">>)
YamlNull == Cases(<<"n", "u", "l", "l">>) \cup {<<"~">>}

\* a YAML 1.1 scalar in a flow collection
YamlScalar(t) ==
    IF t \in YamlNull THEN OutNone
    ELSE IF IsQuoted(t, "'") \/ IsQuoted(t, "\"") THEN OutStr(Inner(t))
    ELSE IF t \in YamlTrue THEN OutBool(TRUE)
    ELSE IF t \in YamlFalse THEN OutBool(FALSE)
    ELSE IF PlainInt(t) THEN IntOfStr(t)
    ELSE IF HasDot(t) /\ Index(t, "e") = 0 /\ ~IsFail(FloatOfStr(t)) THEN FloatOfStr(t)
    ELSE OutStr(t)

\* d[k] = v on the items of a dict
MapSet(items, k, v) ==
    IF \E i \in 1 .. Len(items) : items[i].k = k
    THEN [i \in 1 .. Len(items) |-> IF items[i].k = k THEN KV(k, v) ELSE items[i]]
    ELSE Append(items, KV(k, v))

RECURSIVE MapOfPairs(_, _, _)
\* the dict of the pairs from the i-th on, added to acc
MapOfPairs(pairs, i, acc) ==
    IF i > Len(pairs) THEN acc
    ELSE MapOfPairs(pairs, i + 1, MapSet(acc, pairs[i].k, pairs[i].v))

Hashable(v) == v.kind \notin {"list", "dict"}

RECURSIVE ParseText(_, _)
\* json.loads(s) for mode "json", yaml.load(s, Loader=yaml.SafeLoader) for "yaml"
ParseText(mode, s0) ==
    LET s == StrStrip(s0) IN
    IF s = <<>> THEN (IF mode = "yaml" THEN OutNone ELSE Fail)
    ELSE IF Head(s) \in {"[", "{"}
    THEN IF LastOf(s) # (IF Head(s) = "[" THEN "]" ELSE "}") THEN Fail
         ELSE LET all == SplitTop(Inner(s), ",")
                  \* YAML allows a comma after the last entry
                  parts == IF StrStrip(Inner(s)) = <<>> THEN <<>>
                           ELSE IF mode = "yaml" /\ Len(all) > 1 /\ StrStrip(LastOf(all)) = <<>>
                                THEN SubSeq(all, 1, Len(all) - 1)
                                ELSE all
              IN  IF \E i \in 1 .. Len(parts) : StrStrip(parts[i]) = <<>> THEN Fail
                  ELSE IF Head(s) = "["
                  THEN LET items == [i \in 1 .. Len(parts) |-> ParseText(mode, parts[i])]
                       IN  IF \E i \in 1 .. Len(items) : IsFail(items[i]) THEN Fail
                           ELSE OutSeq("list", items)
                  ELSE LET kvs == [i \in 1 .. Len(parts) |-> SplitTop(parts[i], ":")]
                           pairs == [i \in 1 .. Len(parts) |->
                                       KV(ParseText(mode, kvs[i][1]),
                                          IF Len(kvs[i]) = 1 THEN OutNone
                                          ELSE ParseText(mode, kvs[i][2]))]
                       IN  IF \E i \in 1 .. Len(parts) :
                                 \/ Len(kvs[i]) > 2
                                 \/ (mode = "json" /\ Len(kvs[i]) # 2)
                                 \/ IsFail(pairs[i].k) \/ IsFail(pairs[i].v)
                                 \/ (mode = "json" /\ pairs[i].k.kind # "str")
                                 \/ ~Hashable(pairs[i].k)
                           THEN Fail
                           ELSE OutMap(MapOfPairs(pairs, 1, <<>>))
    ELSE IF mode = "json" THEN JsonScalar(s) ELSE YamlScalar(s)

JsonLoads(s) == ParseText("json", s)
YamlLoad(s) == ParseText("yaml", s)

\* iter(x): the elements, or <<Fail>> when x is not iterable
Iter(x) ==
    CASE x.kind \in {"list", "tuple"} -> x.s
      [] x.kind = "dict" -> [i \in 1 .. Len(x.s) |-> x.s[i].k]
      [] x.kind = "str" -> [i \in 1 .. Len(x.s) |-> OutStr(<<x.s[i]>>)]
      [] OTHER -> <<Fail>>

\* list(x), tuple(x), dict(x)
Construct(kind, x) ==
    IF x.kind \notin {"list", "tuple", "dict", "str"} THEN OutRaise(<<"TypeError">>)
    ELSE IF kind \in {"list", "tuple"} THEN OutSeq(kind, Iter(x))
    ELSE IF x.kind = "dict" THEN x
    ELSE LET elems == Iter(x) IN
         IF \E i \in 1 .. Len(elems) :
               \/ elems[i].kind \notin {"list", "tuple", "dict", "str"}
               \/ Len(Iter(elems[i])) # 2
               \/ ~Hashable(Iter(elems[i])[1])
         THEN Fail
         ELSE OutMap(MapOfPairs([i \in 1 .. Len(elems) |->
                                    KV(Iter(elems[i])[1], Iter(elems[i])[2])], 1, <<>>))

\* str.lstrip(chars), str.rstrip(chars)
RECURSIVE LStripChars(_, _)
LStripChars(s, chars) == IF s # <<>> /\ Head(s) \in chars THEN LStripChars(Tail(s), chars) ELSE s
RECURSIVE RStripChars(_, _)
RStripChars(s, chars) ==
    IF s # <<>> /\ LastOf(s) \in chars THEN RStripChars(SubSeq(s, 1, Len(s) - 1), chars) ELSE s

\* the branch of cast_basic_type for parts[0] in ("list", "tuple", "dict")
CastContainer(value, part) ==
    LET kind == CASE part = TagList -> "list" [] part = TagTuple -> "tuple" [] part = TagDict -> "dict"
        loaded == JsonLoads(value)
        strict == IF IsFail(loaded) THEN Fail ELSE Construct(kind, loaded)
        v == <<"[">> \o RStripChars(LStripChars(value, {"[", "("}), {"]", ")"}) \o <<"]">>
        legacy == YamlLoad(v)
        permissive == IF IsFail(legacy) THEN Fail ELSE Construct(kind, legacy)
    IN  IF ~IsFail(strict) THEN strict
        ELSE IF ~IsFail(permissive) THEN permissive
        ELSE OutStr(value)

\* cast_basic_type(value, type_str)
CastBasicType(value, type_str) ==
    IF type_str = <<>>
    THEN IF value = <<>> THEN OutNone ELSE OutStr(value)
    ELSE IF IsContainerTag(type_str) THEN CastContainer(value, FirstPart(type_str))
    ELSE LET key == StrStrip(StrLower(type_str)) IN
         IF key \in BasicTypeKeys
         THEN LET r == BasicType(key, value) IN
              IF r.kind = "raise" THEN OutStr(value) ELSE r
         ELSE OutStr(value)

\* a call of cast_basic_type
Cast ==
    /\ cout = Pending
    /\ ~IsContainerTag(cin.type_str)
    /\ cout' = CastBasicType(cin.value, cin.type_str)
    /\ UNCHANGED <<cin, proxyVars, postVars, preVars>>

\* the strings cast
CastLiterals ==
    {<<>>, <<"t", "r", "u", "e">>, <<"T", "r", "u", "e">>, <<"T", "R", "U", "E">>,
     <<" ", "t", "r", "u", "e", " ">>, <<"f", "a", "l", "s", "e">>,
     <<"F", "A", "L", "S", "E">>, <<"y", "e", "s">>, <<"t", "r", "u">>,
     <<"1", "e", "1">>, <<"1", ".", "5">>, <<"-", "1">>, <<"4", "2">>, <<"x">>}
CastChars == {"t", "1", " ", "y"}
CastStrings == CastLiterals \cup UNION {[1 .. n -> CastChars] : n \in 0 .. MaxStrLen}
CastTags ==
    {<<>>, TagBool, <<"B", "o", "o", "l">>, <<" ", "b", "o", "o", "l">>, TagInt,
     TagFloat, TagStr, <<"L", "i", "s", "t">>, <<"D", "i", "c", "t">>, <<"x">>,
     <<"b", "o", "o", "l", "/", "x">>}

InitCast ==
    /\ cin \in [value : CastStrings, type_str : CastTags]
    /\ cout = Pending
    /\ ProxyIdle /\ PostIdle /\ PreIdle

NextCast == Cast

SpecCast == InitCast /\ [][NextCast]_vars

(***************************************************************************)
(* SpecRound: cast_basic_type(str(v), get_basic_type(v))                   *)
(***************************************************************************)
RoundStrs == {<<"x">>, <<"a">>, <<"b">>, <<>>, <<"a", "b">>}
RoundScalars ==
    {OutBool(TRUE), OutBool(FALSE), OutInt(0), OutInt(7), OutInt(42), OutInt(0 - 1),
     OutFloat(314, 0 - 2), OutFloat(15, 0 - 1), OutFloat(5, 0 - 1)}
        \cup {OutStr(s) : s \in RoundStrs}
RoundLists ==
    UNION {{OutSeq("list", items) : items \in [1 .. n -> {OutInt(1), OutInt(2), OutInt(3)}]} :
              n \in 0 .. MaxListLen}
        \cup {OutSeq("list", <<OutStr(<<"x">>)>>), OutSeq("list", <<OutStr(<<"x">>), OutStr(<<"a", "b">>)>>),
              OutSeq("list", <<OutBool(TRUE)>>), OutSeq("list", <<OutInt(1), OutStr(<<"x">>)>>),
              OutSeq("tuple", <<OutInt(1)>>), OutSeq("tuple", <<OutInt(1), OutInt(2)>>)}
RoundDicts ==
    {OutMap(<<>>)}
        \cup {OutMap(<<KV(OutStr(<<k>>), v)>>) : k \in {"a", "b"}, v \in {OutInt(1), OutInt(2)}}
        \cup {OutMap(<<KV(OutStr(<<"a">>), v), KV(OutStr(<<"b">>), w)>>) :
                  v \in {OutInt(1), OutInt(2)}, w \in {OutInt(1), OutInt(2), OutStr(<<"x">>)}}
RoundValues == RoundScalars \cup RoundLists \cup RoundDicts

\* castFromTag(str(v), typeTag(v))
RoundTrip ==
    /\ cout = Pending
    /\ LET text == StrOfValue(cin.v)
           tag == GetBasicType(cin.v)
       IN  cout' = [text |-> text, tag |-> tag, out |-> CastBasicType(text, tag)]
    /\ UNCHANGED <<cin, proxyVars, postVars, preVars>>

InitRound ==
    /\ cin \in [v : RoundValues]
    /\ cout = Pending
    /\ ProxyIdle /\ PostIdle /\ PreIdle

NextRound == RoundTrip

SpecRound == InitRound /\ [][NextRound]_vars

(***************************************************************************)
(* flatten_dictionary and nested_from_flat_dictionary.  A dict is the      *)
(* sequence of its items [k, v] in insertion order; a key is [t, s], its   *)
(* type and its text (the int 1 is [t |-> "int", s |-> "1"]); a value is   *)
(* a primitive leaf or a dict.                                             *)
(***************************************************************************)
MaxItems == 2
FlatDepth == 2

StrKey(s) == [t |-> "str", s |-> s]
IntKey(s) == [t |-> "int", s |-> s]
\* str(k)
StrOfKey(k) == StrKey(k.s)

FLeaf(n) == [kind |-> "leaf", n |-> n, items |-> <<>>]
FDict(items) == [kind |-> "dict", n |-> 0, items |-> items]
Item(k, v) == [k |-> k, v |-> v]

\* k in d, d.get(k, default), d[k] = v on a sequence of items
DictHas(d, k) == \E i \in 1 .. Len(d) : d[i].k = k
DictGet(d, k, default) ==
    IF DictHas(d, k) THEN d[CHOOSE i \in 1 .. Len(d) : d[i].k = k].v ELSE default
DictSet(d, k, v) ==
    IF DictHas(d, k)
    THEN [i \in 1 .. Len(d) |-> IF d[i].k = k THEN Item(k, v) ELSE d[i]]
    ELSE Append(d, Item(k, v))

RECURSIVE DictUpdateItems(_, _, _)
\* d.update(other), from item i of other on
DictUpdateItems(d, other, i) ==
    IF i > Len(other) THEN d
    ELSE DictUpdateItems(DictSet(d, other[i].k, other[i].v), other, i + 1)

Sep == "/"

RECURSIVE FlattenFrom(_, _, _, _)
\* the loop of flatten_dictionary from item i on, flat_dict so far in acc
FlattenFrom(a_dict, i, prefix, acc) ==
    IF i > Len(a_dict) THEN acc
    ELSE LET k == StrOfKey(a_dict[i].k).s
             v == a_dict[i].v
         IN  IF v.kind = "leaf"
             THEN FlattenFrom(a_dict, i + 1, prefix, DictSet(acc, StrKey(prefix \o k), v))
             ELSE LET nested_flat_dict == FlattenFrom(v.items, 1, prefix \o k \o Sep, <<>>)
                  IN  IF nested_flat_dict # <<>>
                      THEN FlattenFrom(a_dict, i + 1, prefix,
                                       DictUpdateItems(acc, nested_flat_dict, 1))
                      ELSE FlattenFrom(a_dict, i + 1, prefix,
                                       DictSet(acc, StrKey(k), FDict(<<>>)))

\* flatten_dictionary(a_dict)
FlattenDictionary(a_dict) == FlattenFrom(a_dict, 1, "", <<>>)

RECURSIVE NestedFrom(_, _, _, _, _)
\* the loop of nested_from_flat_dictionary over org_dict from item i on;
\* a nested dict is restored in place, so the entry it came from holds the
\* restored dict as well
NestedFrom(a_dict, org_dict, i, flat_dict, prefix) ==
    IF i > Len(org_dict) THEN a_dict
    ELSE LET k == StrOfKey(org_dict[i].k)
             v == org_dict[i].v
         IN  IF v.kind = "leaf"
             THEN NestedFrom(DictSet(a_dict, k, DictGet(flat_dict, StrKey(prefix \o k.s), v)),
                             org_dict, i + 1, flat_dict, prefix)
             ELSE LET sub == FDict(NestedFrom(v.items, v.items, 1, flat_dict,
                                              prefix \o k.s \o Sep))
                  IN  NestedFrom(DictSet(DictSet(a_dict, org_dict[i].k, sub), k, sub),
                                 org_dict, i + 1, flat_dict, prefix)

\* nested_from_flat_dictionary(a_dict, flat_dict)
NestedFromFlatDictionary(a_dict, flat_dict) == NestedFrom(a_dict, a_dict, 1, flat_dict, "")

\* the keys and leaves of the dicts flattened
TopKeySet == {StrKey("a"), StrKey("a/b"), StrKey("1"), IntKey("1")}
NestedKeySet == {StrKey("b"), IntKey("1")}
FlatLeaves == {FLeaf(1), FLeaf(2)}

\* the dicts of at most MaxItems items with keys in K and values in V
DictsOver(K, V) ==
    UNION {{[i \in 1 .. n |-> Item(ks[i], vs[i])] :
               ks \in {f \in [1 .. n -> K] : \A i, j \in 1 .. n : f[i] = f[j] => i = j},
               vs \in [1 .. n -> V]} : n \in 1 .. MaxItems}

RECURSIVE FlatValues(_)
\* the values of at most r levels of nesting
FlatValues(r) ==
    IF r = 0 THEN FlatLeaves
    ELSE FlatLeaves \cup {FDict(d) : d \in DictsOver(IF r = FlatDepth THEN TopKeySet ELSE NestedKeySet,
                                                      FlatValues(r - 1))}

HasNested(d) == \E i \in 1 .. Len(d) : d[i].v.kind = "dict"
FlatInputs == {v.items : v \in {w \in FlatValues(FlatDepth) : w.kind = "dict" /\ HasNested(w.items)}}

\* unflatten(m, flatten(m))
FlattenUnflatten ==
    /\ cout = Pending
    /\ LET flat == FlattenDictionary(cin.m) IN
       cout' = [flat |-> flat, out |-> NestedFromFlatDictionary(cin.m, flat)]
    /\ UNCHANGED <<cin, proxyVars, postVars, preVars>>

InitFlat ==
    /\ cin \in [m : FlatInputs]
    /\ cout = Pending
    /\ ProxyIdle /\ PostIdle /\ PreIdle

NextFlat == FlattenUnflatten

SpecFlat == InitFlat /\ [][NextFlat]_vars

(***************************************************************************)
(* SpecFlatPaths: flatten_dictionary with a prefix, over dicts that may    *)
(* hold empty dicts at any level.                                          *)
(***************************************************************************)
PathDepth == 2

PathKeySet == {StrKey("a"), StrKey("b")}
PathPrefixes == {"", "p/"}
EmptyFDict == FDict(<<>>)

RECURSIVE PathValues(_)
\* a leaf, an empty dict, or a dict of at most r further levels
PathValues(r) ==
    IF r = 0 THEN {FLeaf(1), EmptyFDict}
    ELSE {FLeaf(1), EmptyFDict}
         \cup {FDict(d) : d \in DictsOver(PathKeySet, PathValues(r - 1))}

PathInputs == DictsOver(PathKeySet, PathValues(PathDepth - 1))

\* flatten_dictionary(m, prefix=prefix)
Flatten ==
    /\ cout = Pending
    /\ cout' = [flat |-> FlattenFrom(cin.m, 1, cin.prefix, <<>>)]
    /\ UNCHANGED <<cin, proxyVars, postVars, preVars>>

InitFlatPaths ==
    /\ cin \in [m : PathInputs, prefix : PathPrefixes]
    /\ cout = Pending
    /\ ProxyIdle /\ PostIdle /\ PreIdle

NextFlatPaths == Flatten

SpecFlatPaths == InitFlatPaths /\ [][NextFlatPaths]_vars

(***************************************************************************)
(* The claims.                                                             *)
(***************************************************************************)

\* C1: after a forwarded operation (special method, attribute access,
\* truthiness) on a handle whose producer never raises, whatever the
\* producer returns (None included), the producer has been invoked exactly
\* once and the operation observed the value the producer returns.
C1_ResolutionOnce ==
    (last.op \in {"method", "bool", "getattr"} /\ ~handles[last.h].flaky)
        => (calls[last.h] = 1 /\ last.obj = handles[last.h].ret)

\* C1, for producers that return a value other than None: the same statement
ResolutionOnceNotNone ==
    (/\ last.op \in {"method", "bool", "getattr"}
     /\ ~handles[last.h].flaky
     /\ handles[last.h].ret # PyNone)
        => (calls[last.h] = 1 /\ last.obj = handles[last.h].ret)

\* C2: every set or update on the root or on a mapping reachable from the
\* root invokes onChange exactly once, with (owner, root mapping).
(***************************************************************************)
(* SpecPrePaths: item assignment at every level of a filtering mapping     *)
(* constructed from a mapping nested PathNest deep.                        *)
(***************************************************************************)
PathNest == 3

RECURSIVE ChainDicts(_)
\* the mappings nested n deep that hold one entry per level
ChainDicts(n) ==
    IF n = 1 THEN {MkDict([k \in Keys |-> IF k = j THEN Leaf(1) ELSE Absent]) : j \in Keys}
    ELSE {MkDict([k \in Keys |-> IF k = j THEN c ELSE Absent]) :
             j \in Keys, c \in ChainDicts(n - 1)}

InitPrePaths ==
    /\ fstore \in {PreInit(m, "func", "owner") : m \in ChainDicts(PathNest)}
    /\ flast = [op |-> "init", path |-> <<>>, consulted |-> <<>>, ret |-> "-"]
    /\ ProxyIdle /\ PostIdle /\ CastIdle

\* the owner rejects the write or accepts it as reported
PathResponses == {"none", "same"}

NextPrePaths ==
    \E p \in DOMAIN fstore, key \in Keys, resp \in PathResponses :
        PreSetItem(p, key, Leaf(2), resp)

SpecPrePaths == InitPrePaths /\ [][NextPrePaths]_vars

C2_NotifyOnce ==
    plast.op \in {"set", "update"} => plast.notes = << <<"owner", <<>>>> >>

\* C3: every mapping-valued entry reachable from the root is a wrapper; no
\* plain nested mapping is reachable.
C3_AllWrapped == \A x \in DOMAIN pstore : pstore[x].kind # "plain"

\* C4: no operation on a filtering mapping (item assignment, update,
\* setdefault) changes its storage without onWrite having been consulted.
C4_EveryWriteConsulted ==
    [][(fstore' # fstore /\ fstore[flast'.path].kind = "proxy")
          => flast'.consulted # <<>>]_vars

\* C5: set(key, value) on a filtering mapping: when onWrite returns None or
\* a falsy value the whole tree is unchanged; when it returns a pair
\* (k', v') the mapping written to holds v' under k'.
C5_FilteredSet ==
    [][\A key \in Keys, val \in PreVals, resp \in Responses :
          (flast'.op = "set" /\ PreSetItem(flast'.path, key, val, resp)) =>
              /\ Len(flast'.consulted) = 1
              /\ flast'.consulted[1][1] = "owner"
              /\ LET p == flast'.path
                     ans == OnWrite(resp, RetPair(flast'.consulted[1][2],
                                                  flast'.consulted[1][3]))
                 IN  IF ans.tag = "pair"
                     THEN /\ p \o <<ans.k>> \in DOMAIN fstore'
                          /\ Sub(fstore', p \o <<ans.k>>) = ans.v
                     ELSE fstore' = fstore]_vars

\* C5 witness: a nested set the owner answered with a pair, stored
C5_Witness ==
    /\ flast.op = "set" /\ flast.ret = "pair" /\ Len(flast.path) = 1
    /\ flast.path \o <<"r">> \in DOMAIN fstore
    /\ fstore[flast.path \o <<"r">>] = Leaf(1)[<<>>]

\* C5 witness: a set the owner rejected
C5_WitnessRejected == flast.op = "set" /\ flast.ret = "none" /\ flast.consulted # <<>>

\* C6: with tag "bool" the cast returns True for "true", False for "false"
\* or the empty string (case-insensitive), and raises for any other literal.
C6_BoolCastFailsLoudly ==
    (cout # Pending /\ StrStrip(StrLower(cin.type_str)) = TagBool) =>
        LET s == StrLower(StrStrip(cin.value)) IN
        IF s = <<"t", "r", "u", "e">> THEN cout = OutBool(TRUE)
        ELSE IF s = <<"f", "a", "l", "s", "e">> \/ s = <<>> THEN cout = OutBool(FALSE)
        ELSE cout.kind = "raise"

\* C7: a flush invokes every reference pending in the registry exactly once
\* (a callable registered by two handles once per registration) and leaves
\* the registry empty.
C7_FlushInvokesEachOnce ==
    [][TriggerAllRemoteReferences =>
          /\ registry' = <<>>
          /\ \A f \in RefVals :
                Count(f, last'.invoked) = IF Callable(f) THEN Count(f, registry) ELSE 0]_vars

\* C7 witness: a flush that invoked two different pending references
C7_Witness ==
    /\ last.op = "flush" /\ registry = <<>>
    /\ Len(last.invoked) = 2 /\ last.invoked[1] # last.invoked[2]

\* C8: the registry holds exactly one entry for each handle constructed
\* with a remote reference since the last flush whose accessor has not been
\* invoked.
C8_RegistryBookkeeping ==
    \A f \in RefVals :
        Count(f, registry) = Cardinality({h \in H : pending[h] /\ handles[h].rref = f})

\* C9: a forwarded operation whose argument is an unresolved handle (no
\* producer raising) invokes the argument's producer and is applied to the
\* two resolved values.
C9_ArgumentSubstitution ==
    [][\A h \in H, g \in H :
          (Method(h, "__lt__", HandleArg(g), FALSE, FALSE) /\ handles[g].wrapped = PyNone)
              => /\ calls'[g] > calls[g]
                 /\ last'.obj = handles[h].ret
                 /\ last'.argv = handles[g].ret]_vars

\* C10: the type-identity query of a typed handle returns the declared type,
\* never invokes a producer and leaves every handle as it was.
C10_TypedIdentity ==
    [][\A h \in H :
          (handles[h].kind = "typed" /\ GetAttr(h, "__class__", FALSE))
              => /\ last'.out = PyType(handles[h].base)
                 /\ calls' = calls
                 /\ handles' = handles]_vars

\* C10 witness: the query answered on a typed handle that is still unresolved
C10_Witness ==
    /\ last.op = "own" /\ last.name = "__class__"
    /\ handles[last.h].kind = "typed"
    /\ last.out = PyType(handles[last.h].base)
    /\ handles[last.h].wrapped = PyNone /\ calls[last.h] = 0

\* an operation that forces handle h itself; boom: its producer raises
Forces(h, boom) ==
    \/ Bool(h, boom)
    \/ (handles[h].kind = "lazy" /\ GetAttr(h, "__class__", boom))
    \/ Method(h, "__int__", NoArg, boom, FALSE)
    \/ Method(h, "__lt__", ValArg(PyInt(4)), boom, FALSE)

\* C11: when the producer raises on an operation that forces the handle
\* itself, the error reaches the caller unmodified and the handle stays
\* unresolved; the next forcing operation invokes the producer again and
\* caches what it returns.
C11_FailureNotCached ==
    [][\A h \in H :
          /\ Forces(h, TRUE) =>
                /\ last'.out = Raise("ProducerError")
                /\ handles'[h].wrapped = PyNone
                /\ calls'[h] = calls[h] + 1
          /\ (last.h = h /\ last.out = Raise("ProducerError") /\ Forces(h, FALSE)) =>
                /\ calls'[h] = calls[h] + 1
                /\ handles'[h].wrapped = handles[h].ret
                /\ last'.obj = handles[h].ret]_vars

\* C11 witness: a producer that raised once and then succeeded, its value cached
C11_Witness ==
    /\ last.op \in {"method", "bool", "getattr"}
    /\ handles[last.h].flaky /\ calls[last.h] = 2
    /\ last.obj = handles[last.h].ret
    /\ handles[last.h].wrapped = handles[last.h].ret

\* the operation applied to the values themselves
Direct(op, side, x, v) ==
    OperatorResult(IF side = "left" THEN Apply(Slot(op), x, <<v>>)
                   ELSE Apply(Slot(op), v, <<x>>))

\* C12: an operation on a handle whose producer returns x yields what the
\* operation yields on x itself: arithmetic with the handle on either side,
\* equality, string conversion, truthiness.
C12_Transparency ==
    [][\A h \in H :
          /\ \A op \in BinOps, side \in Sides, v \in OpArgs :
                Operator(h, op, side, v, FALSE) =>
                    last'.out = Direct(op, side, handles[h].ret, v)
          /\ Method(h, "__str__", NoArg, FALSE, FALSE) => last'.out = StrOf(handles[h].ret)
          /\ \A v \in OpArgs \cup OpRets :
                Method(h, "__eq__", ValArg(v), FALSE, FALSE) =>
                    last'.out = Apply("__eq__", handles[h].ret, <<v>>)
          /\ Bool(h, FALSE) => last'.out = PyBool(Truthy(handles[h].ret))]_vars

RECURSIVE Entries(_, _)
\* a dict as the set of its paths: <<keys, leaf>> and <<keys, "{}">>
Entries(d, path) ==
    UNION {IF d[i].v.kind = "leaf" THEN {[path |-> Append(path, d[i].k), leaf |-> d[i].v.n]}
           ELSE {[path |-> Append(path, d[i].k), leaf |-> 0]}
                \cup Entries(d[i].v.items, Append(path, d[i].k)) : i \in 1 .. Len(d)}

\* C13: unflatten(m, flatten(m)) equals m, whatever the keys of m.
C13_RoundTrip == cout # Pending => Entries(cout.out, <<>>) = Entries(cin.m, <<>>)

\* C14: cast_basic_type(str(v), get_basic_type(v)) is v again, for bools,
\* ints, floats, strs, lists and dicts.
C14_CastRoundTrip ==
    cout # Pending => (cout.out.kind = cin.v.kind /\ cout.out = cin.v)

\* C15: to_dict() returns a mapping with the keys and leaf values of the
\* wrapper tree in which no mapping at any depth is a wrapper; producing it
\* notifies nobody and leaves the tree as it was.
C15_Snapshot ==
    [][\A p \in DOMAIN pstore :
          PostToDict(p) =>
              LET tree == Sub(pstore, p)
                  snap == plast'.snap
              IN  /\ DOMAIN snap = DOMAIN tree
                  /\ \A x \in DOMAIN snap :
                        /\ snap[x].kind # "proxy"
                        /\ IsDict(snap[x]) <=> IsDict(tree[x])
                        /\ tree[x].kind = "leaf" => snap[x] = tree[x]
                  /\ plast'.notes = <<>>
                  /\ pstore' = pstore]_vars

\* C15 witness: a snapshot of the root taken while a nested wrapper holds a
\* leaf written after construction
C15_Witness ==
    /\ plast.op = "to_dict" /\ plast.path = <<>>
    /\ \E k \in Keys, j \in Keys :
          /\ <<k, j>> \in DOMAIN pstore
          /\ pstore[<<k>>].kind = "proxy"
          /\ pstore[<<k, j>>] = Leaf(2)[<<>>]
          /\ plast.snap[<<k>>].kind = "plain"
          /\ plast.snap[<<k, j>>] = Leaf(2)[<<>>]

\* C16: every operation on a wrapper that changes the stored contents (set,
\* update, del, pop, setdefault, clear) notifies the owner.
C16_EveryMutationNotifies ==
    [][(pstore' # pstore /\ pstore[plast'.path].kind = "proxy") => plast'.notes # <<>>]_vars

\* C17: when a forwarded operation on handle h takes the unresolved handle g
\* as its argument and g's producer raises while g is forced, the operation
\* ends with the producer's error and is not applied to a placeholder.
C17_ArgumentErrorReachesCaller ==
    [][\A h \in H, g \in H :
          Method(h, "__lt__", HandleArg(g), FALSE, TRUE) =>
              /\ last'.out = Raise("ProducerError")
              /\ last'.argv # PyNone]_vars

\* C18: on a handle of the typed proxy factory, reading, assigning and
\* deleting an attribute resolve the handle and act on the resolved value
\* exactly as on an untyped handle; an assignment neither changes the
\* wrapper's own slots nor fails on the wrapper.
C18_TypedAttributeForwarding ==
    [][\A h \in H : handles[h].kind = "typed" =>
          /\ GetAttr(h, "x", FALSE) =>
                LET r == LazyGetAttribute(handles, calls, h, "x", FALSE) IN
                handles' = r.hs /\ calls' = r.cs /\ last'.out = r.out
          /\ \A attr \in SetAttrs, v \in SetVals :
                SetAttr(h, attr, v, FALSE) =>
                   LET r == LazySetAttr(handles, calls, h, attr, v, FALSE) IN
                   handles' = r.hs /\ calls' = r.cs /\ last'.out = r.out
          /\ DelAttr(h, "x", FALSE) =>
                LET r == LazyDelAttr(handles, calls, h, "x", FALSE) IN
                handles' = r.hs /\ calls' = r.cs /\ last'.out = r.out]_vars

RECURSIVE DotJoin(_)
\* the keys of a non-empty path joined with "."
DotJoin(s) == IF Len(s) = 1 THEN s[1] ELSE s[1] \o "." \o DotJoin(Tail(s))

\* C19: a set(key, value) on the wrapper nested under the keys k1, ..., kn
\* calls the owner's onWrite exactly once, with the owner, the key
\* "k1.k2. ... .kn.key" and the value as given.
C19_NestedPath ==
    [][\A key \in Keys, resp \in PathResponses :
          (flast'.op = "set" /\ PreSetItem(flast'.path, key, Leaf(2), resp)) =>
              flast'.consulted =
                  << <<"owner", DotJoin(flast'.path \o <<key>>), Leaf(2)>> >>]_vars

\* C19 witness: a set two levels below the root reported under a
\* three-part key
C19_Witness ==
    /\ flast.op = "set" /\ Len(flast.path) = 2
    /\ \E key \in Keys :
          flast.consulted =
              << <<"owner", flast.path[1] \o "." \o flast.path[2] \o "." \o key, Leaf(2)>> >>

\* C20: nothing guards the cache: a thread that read the cache of a handle
\* as empty invokes the producer on its next step whatever the cache holds
\* by then, so two threads that both read it empty before either stored
\* invoke the producer twice.
C20_UnguardedResolution ==
    [][\A t \in Threads :
          (threads[t].pc = "call" /\ threads'[t] # threads[t]) =>
              /\ calls'[threads[t].h] = calls[threads[t].h] + 1
              /\ threads'[t].pc = "store"]_vars

\* C20 witness: the producer of one handle, which never returns None, has
\* been invoked twice, once by each of two threads that have both stored
C20_Witness ==
    \E h \in H, t \in Threads, u \in Threads :
        /\ t # u /\ calls[h] = 2 /\ handles[h].ret # PyNone
        /\ threads[t] = [pc |-> "done", h |-> h, obj |-> handles[h].ret]
        /\ threads[u] = [pc |-> "done", h |-> h, obj |-> handles[h].ret]

RECURSIVE PathEntries(_, _)
\* the entries [k, v] a flat mapping of d holds when every leaf and every
\* empty dict is keyed by prefix and the separator-joined path to it
PathEntries(d, prefix) ==
    UNION {IF d[i].v.kind = "leaf" \/ d[i].v.items = <<>>
           THEN {[k |-> prefix \o d[i].k.s, v |-> d[i].v]}
           ELSE PathEntries(d[i].v.items, prefix \o d[i].k.s \o Sep) : i \in 1 .. Len(d)}

\* C21: every entry of flatten's result is keyed by the prefix and the full
\* separator-joined path from the root; an empty nested mapping is kept as
\* an empty-mapping leaf under its full path.
C21_FullPathKeys ==
    (cout # Pending) =>
        {[k |-> cout.flat[i].k.s, v |-> cout.flat[i].v] : i \in 1 .. Len(cout.flat)}
            = PathEntries(cin.m, cin.prefix)

\* C22: the remote-reference accessor and the class-level flush invoke no
\* producer and leave every handle resolved or unresolved as it was;
\* resolving a handle's value leaves the registry of pending references
\* unchanged.
C22_Independent ==
    [][/\ (vars' # vars /\ last'.op \in {"remoteref", "flush"}) =>
             /\ calls' = calls
             /\ \A h \in H : handles'[h].wrapped = handles[h].wrapped
       /\ (vars' # vars /\ last'.op \in {"bool", "getattr"}) => registry' = registry]_vars

\* C22 witness: the accessor of a handle never resolved has invoked its
\* callable reference, after another handle was resolved while its own
\* reference stayed registered
C22_Witness ==
    /\ last.op = "remoteref" /\ last.invoked # <<>>
    /\ handles[last.h].wrapped = PyNone /\ calls[last.h] = 0
    /\ \E g \in H : handles[g].wrapped # PyNone /\ calls[g] = 1 /\ pending[g]

\* C23: when a callback invoked by the flush calls the accessor of another
\* handle, every callable reference registered when the flush started has
\* been invoked by the time the flush returns.
C23_ReentrantFlushInvokesAll ==
    [][\A f \in FlushRefs, g \in FlushH :
          TriggerAllReentrant(f, g) =>
              \A i \in 1 .. Len(registry) :
                  Callable(registry[i]) => InSeq(registry[i], last'.invoked)]_vars

\* C24: when the owner accepts a write by returning the pair it received,
\* m[a][b] = v on the mapping nested under a leaves that mapping with v
\* under b and with no entry keyed by the dotted path "a.b".
C24_NestedWriteLandsOnKey ==
    [][\A key \in Keys, val \in PreVals :
          (/\ flast'.op = "set" /\ Len(flast'.path) = 1
           /\ flast'.path \o <<key>> \in DOMAIN fstore
           /\ PreSetItem(flast'.path, key, val, "same")) =>
              /\ flast'.path \o <<key>> \in DOMAIN fstore'
              /\ Sub(fstore', flast'.path \o <<key>>) = val
              /\ flast'.path \o <<DotJoin(flast'.path \o <<key>>)>> \notin DOMAIN fstore']_vars
============================================================================
